---------------------------- MODULE Spec2Model ----------------------------
(***************************************************************************)
(* Model of the incremental ranking engine of populate_stats.py (playlist  *)
(* classification, checkpoint decision, XP/rank replay, consolidation and  *)
(* persistence) and of the rank lookup of the bot (STATSRANKS_new.py).     *)
(***************************************************************************)
EXTENDS Integers, Sequences, FiniteSets, TLC

(***************************************************************************)
(* Dictionaries are functions with a finite domain; << >> is the empty one *)
(***************************************************************************)
EmptyDict == << >>

Put(d, k, v) == [x \in (DOMAIN d) \cup {k} |-> IF x = k THEN v ELSE d[x]]

Get(d, k, default) == IF k \in DOMAIN d THEN d[k] ELSE default

\* Python's None
None == "None"

(***************************************************************************)
(* Bounds of the model                                                     *)
(***************************************************************************)
\* game files that ever arrive in stats/
MaxFiles == 2
\* edits of manual_playlists.json / changes of the active match in a behaviour
MaxEdits == 1
\* width of one level of the generated rank tables, and xp range sampled
MaxWidth == 2
\* highest score of one player in a drawn game
MaxScore == 1
\* games of one playlist given to the series detector: with changing rosters,
\* and with one pair of rosters
MaxSeriesGames == 4
MaxLongSeries == 8
\* game files of a first run over files with tags of every kind
MaxReplayFiles == 3
\* games a new player plays in one playlist
MaxScenarioGames == 4

(***************************************************************************)
(* Configuration (xp_config.json)                                          *)
(***************************************************************************)
\* range(50, 0, -1): levels scanned by both rank lookups
TopLevel == 50

\* xp_config['game_win'] and xp_config['game_loss'], with the values the
\* comments of main() give them
xp_win == 100
xp_loss == -100

\* the rank table written by the bot when xp_config.json does not exist
DefaultThresholds ==
  [l \in 1..TopLevel |->
     IF l = 1 THEN <<0, 88>>
     ELSE IF l <= 12 THEN <<89 + 100 * (l - 2), 188 + 100 * (l - 2)>>
     ELSE IF l <= 16 THEN <<1189 + 200 * (l - 13), 1388 + 200 * (l - 13)>>
     ELSE IF l <= 49 THEN <<1989 + 250 * (l - 17), 2238 + 250 * (l - 17)>>
     ELSE <<10239, 1000000000>>]

rank_thresholds == DefaultThresholds

\* factors are kept in percent: 1.0 is 100
FullFactor == 100
DefaultWinFactor == 50

\* loss_factors / win_factors of the configuration: rank -> percent
loss_factors == [r \in {1} |-> 50]
win_factors == EmptyDict

(***************************************************************************)
(* Rank Table                                                              *)
(***************************************************************************)
RECURSIVE ScanEngine(_, _, _)
ScanEngine(xp, thresholds, rank) ==
  IF rank = 0 THEN 1
  ELSE IF rank \in DOMAIN thresholds
          /\ thresholds[rank][1] <= xp /\ xp <= thresholds[rank][2]
       THEN rank
       ELSE ScanEngine(xp, thresholds, rank - 1)

\* populate_stats.calculate_rank(xp, rank_thresholds)
calculate_rank(xp, thresholds) == ScanEngine(xp, thresholds, TopLevel)

RECURSIVE ScanBot(_, _, _)
ScanBot(xp, thresholds, level) ==
  IF level = 0 THEN 1
  ELSE IF xp >= thresholds[level][1] THEN level
       ELSE ScanBot(xp, thresholds, level - 1)

\* STATSRANKS_new.calculate_rank(xp), thresholds read from the configuration
bot_calculate_rank(xp, thresholds) == ScanBot(xp, thresholds, TopLevel)

\* STATSRANKS_new.calculate_playlist_rank(xp)
calculate_playlist_rank(xp, thresholds) == ScanBot(xp, thresholds, TopLevel)

(***************************************************************************)
(* Factor Table                                                            *)
(***************************************************************************)
\* ranks from which the loss penalty is full / up to which the win gain is full
LossFullFrom == 30
WinFullUpTo == 40

get_loss_factor(rank, factors) ==
  IF rank >= LossFullFrom THEN FullFactor ELSE Get(factors, rank, FullFactor)

get_win_factor(rank, factors) ==
  IF rank <= WinFullUpTo THEN FullFactor ELSE Get(factors, rank, DefaultWinFactor)

\* int(xp * factor): truncation toward zero, the factor in percent
ScaleXp(xp, pct) ==
  IF xp * pct >= 0 THEN (xp * pct) \div 100 ELSE -((-(xp * pct)) \div 100)

(***************************************************************************)
(* Match records and the playlists                                         *)
(***************************************************************************)
PLAYLIST_MLG_4V4 == "MLG 4v4"
PLAYLIST_TEAM_HARDCORE == "Team Hardcore"
PLAYLIST_DOUBLE_TEAM == "Double Team"
PLAYLIST_HEAD_TO_HEAD == "Head to Head"

\* the order in which main() concatenates ranked_games and saves playlists
all_playlists ==
  <<PLAYLIST_MLG_4V4, PLAYLIST_TEAM_HARDCORE, PLAYLIST_DOUBLE_TEAM,
    PLAYLIST_HEAD_TO_HEAD>>

\* in-game names and the identity each resolves to ("a2" is an alias of "a")
Names == {"a", "a2", "b"}
Users == {"u1", "u2"}
resolve_player_to_discord(name) == IF name = "b" THEN "u2" ELSE "u1"

Game(r, b, rs, bs) ==
  [players |-> << [name |-> r, team |-> "Red", score_numeric |-> rs],
                  [name |-> b, team |-> "Blue", score_numeric |-> bs] >>]

\* the match reports that can arrive
GamePool ==
  {Game("a", "b", 1, 0), Game("a", "b", 0, 1), Game("a2", "b", 1, 0)}

\* tags a manual override can give, and tags the active match can give
ManualTags == {PLAYLIST_MLG_4V4}
ActiveTags == {None, PLAYLIST_HEAD_TO_HEAD}

RECURSIVE SumF(_, _)
SumF(f, S) ==
  IF S = {} THEN 0
  ELSE LET x == CHOOSE y \in S : TRUE IN f[x] + SumF(f, S \ {x})

RECURSIVE MaxF(_, _, _)
MaxF(f, S, least) ==
  IF S = {} THEN least
  ELSE LET x == CHOOSE y \in S : TRUE
           m == MaxF(f, S \ {x}, least)
       IN IF f[x] > m THEN f[x] ELSE m

RECURSIVE SelectIds(_, _, _)
\* the ids 1..n, ascending, that satisfy keep
SelectIds(n, keep, i) ==
  IF i > n THEN << >>
  ELSE (IF keep[i] THEN <<i>> ELSE << >>) \o SelectIds(n, keep, i + 1)

(***************************************************************************)
(* Outcome Resolver                                                        *)
(***************************************************************************)
TeamPlayers(game, t) ==
  {game.players[i].name : i \in {j \in DOMAIN game.players : game.players[j].team = t}}

TeamScore(game, t) ==
  LET idx == {j \in DOMAIN game.players : game.players[j].team = t}
  IN SumF([j \in idx |-> game.players[j].score_numeric], idx)

determine_winners_losers(game) ==
  LET teams == {t \in {"Red", "Blue"} : \E j \in DOMAIN game.players : game.players[j].team = t}
  IN IF Cardinality(teams) = 2
     THEN IF TeamScore(game, "Red") = TeamScore(game, "Blue")
          THEN [winners |-> {}, losers |-> {}]
          ELSE IF TeamScore(game, "Red") > TeamScore(game, "Blue")
               THEN [winners |-> TeamPlayers(game, "Red"), losers |-> TeamPlayers(game, "Blue")]
               ELSE [winners |-> TeamPlayers(game, "Blue"), losers |-> TeamPlayers(game, "Red")]
     ELSE [winners |-> {}, losers |-> {}]

(***************************************************************************)
(* State                                                                   *)
(***************************************************************************)
VARIABLES
  \* files and persisted state
  stats_files,          \* the game files, in file name (timestamp) order
  manual_playlists,     \* manual_playlists.json: file -> playlist
  active_tag,           \* file -> what the active match classifies it as
  processed_state_file, \* processed_state.json
  ranks_file,           \* ranks.json
  rankhistory_file,     \* rankhistory.json
  edits,                \* tag changes so far
  \* one run of main()
  pc, processed_state, needs_full_rebuild, new_files, changed_playlists,
  incremental_mode, saved_player_state, rankstats, game_playlist,
  ranked_games, player_to_id, all_player_names, player_game_stats,
  player_playlist, rankhistory, games_to_process_for_xp, game_num,
  \* inputs and results of the rank lookups
  rk_thresholds, rk_a, rk_b, rk_engine, rk_bot, rk_playlist,
  \* one player of one ranked game: the game, the name, the configuration, the
  \* entry before, and the outcome and the entry after
  fx_game, fx_name, fx_cfg, fx_before, fx_outcome, fx_after,
  \* the games of one playlist and the series detected in them
  sd_games, sd_series,
  \* the series of the run and series.json
  all_series, series_file,
  \* a new player's games in one playlist: the step, the configuration, the
  \* games and the entries of the player from the start
  sc_pc, sc_cfg, sc_games, sc_trace,
  \* the bot: rankstats.json, the commands run so far, and one call of
  \* refresh_all_ranks / refresh_playlist_ranks (its position, player_ids,
  \* loop index, loaded stats and updated flag); rf_before is the store when
  \* the call started, rf_concurrent the records other commands wrote while
  \* the call was suspended
  bot_rankstats, bot_cmds, rf_pc, rf_kind, rf_ids, rf_i, rf_stats, rf_updated,
  rf_before, rf_concurrent

filevars == <<stats_files, manual_playlists, active_tag, processed_state_file,
              ranks_file, rankhistory_file, edits>>
runvars == <<pc, processed_state, needs_full_rebuild, new_files, changed_playlists,
             incremental_mode, saved_player_state, rankstats, game_playlist,
             ranked_games, player_to_id, all_player_names, player_game_stats,
             player_playlist, rankhistory, games_to_process_for_xp, game_num>>
rankvars == <<rk_thresholds, rk_a, rk_b, rk_engine, rk_bot, rk_playlist>>
xpvars == <<fx_game, fx_name, fx_cfg, fx_before, fx_outcome, fx_after>>
seriesvars == <<sd_games, sd_series>>
outvars == <<all_series, series_file>>
scenvars == <<sc_pc, sc_cfg, sc_games, sc_trace>>
botvars == <<bot_rankstats, bot_cmds, rf_pc, rf_kind, rf_ids, rf_i, rf_stats,
             rf_updated, rf_before, rf_concurrent>>
vars == <<filevars, runvars, rankvars, xpvars, seriesvars, outvars, scenvars,
          botvars>>

FileIds == 1..Len(stats_files)

GameNames(f) == {stats_files[f].players[i].name : i \in DOMAIN stats_files[f].players}

(***************************************************************************)
(* Checkpoint Manager                                                      *)
(***************************************************************************)
\* what load_processed_state returns when the file cannot be read or parsed
DefaultProcessedState ==
  [games |-> EmptyDict, player_state |-> EmptyDict, player_name_to_id |-> EmptyDict]

\* processed_state.json: absent or unparseable, or the state last saved
NoCheckpoint == [readable |-> FALSE, content |-> DefaultProcessedState]

load_processed_state ==
  IF processed_state_file.readable THEN processed_state_file.content
  ELSE DefaultProcessedState

load_player_state_from_processed(ps) == ps.player_state

check_for_changes(files, manual, ps) ==
  LET old_games == ps.games
      new == {f \in files : f \notin DOMAIN old_games}
      changed == {f \in files : f \in DOMAIN old_games
                                 /\ old_games[f] # Get(manual, f, None)}
  IN [needs_full_rebuild |-> changed # {}, new_files |-> new,
      changed_playlists |-> changed]

\* lines 599-602, then the result of the duration / active match rules
determine_playlist(f, active, manual) ==
  IF f \in DOMAIN manual THEN manual[f] ELSE active[f]

(***************************************************************************)
(* Run Orchestrator: plan, restore or reset, classify                      *)
(***************************************************************************)
\* an entry of rankstats.json as the bot creates it
DefaultRankstats ==
  [u \in Users |-> [xp |-> 0, rank |-> 1, wins |-> 0, losses |-> 0,
                    total_games |-> 0, highest_rank |-> 1, playlists |-> EmptyDict]]

load_rankstats == DefaultRankstats

\* STEP 1, incremental: rankstats entries take the saved values
RestoreRankstats(rs, saved) ==
  [u \in DOMAIN rs |->
     IF u \in DOMAIN saved
     THEN [xp |-> saved[u].xp, rank |-> saved[u].rank, wins |-> saved[u].wins,
           losses |-> saved[u].losses, total_games |-> saved[u].total_games,
           highest_rank |-> saved[u].highest_rank,
           playlists |-> [pl \in (DOMAIN rs[u].playlists) \cup (DOMAIN saved[u].playlists) |->
                            IF pl \in DOMAIN saved[u].playlists
                            THEN saved[u].playlists[pl] ELSE rs[u].playlists[pl]]]
     ELSE rs[u]]

\* STEP 1, full: counters back to zero (playlists and highest_rank are kept)
ZeroRankstats(rs) ==
  [u \in DOMAIN rs |->
     [rs[u] EXCEPT !.xp = 0, !.wins = 0, !.losses = 0, !.total_games = 0, !.rank = 1]]

RECURSIVE RankedGames(_, _)
\* ranked_games: the games of the four playlists, playlist after playlist
RankedGames(gp, k) ==
  IF k > Len(all_playlists) THEN << >>
  ELSE SelectIds(Len(stats_files), [f \in DOMAIN gp |-> gp[f] = all_playlists[k]], 1)
       \o RankedGames(gp, k + 1)

EmptyLedger ==
  [xp |-> EmptyDict, wins |-> EmptyDict, losses |-> EmptyDict, games |-> EmptyDict,
   rank |-> EmptyDict, highest_rank |-> EmptyDict]

\* line 1181 alone, without the fallback of lines 1188-1190
IncrementalMode_KeepsFlag(needs_full, new, saved) == ~needs_full /\ new # {}

\* lines 1181-1191: resume only without playlist changes, with new files and
\* with a saved player state
IncrementalMode(needs_full, new, saved) ==
  ~needs_full /\ new # {} /\ saved # EmptyDict

RunInit ==
  /\ pc = "idle"
  /\ processed_state = DefaultProcessedState
  /\ needs_full_rebuild = FALSE
  /\ new_files = {}
  /\ changed_playlists = {}
  /\ incremental_mode = FALSE
  /\ saved_player_state = EmptyDict
  /\ rankstats = DefaultRankstats
  /\ game_playlist = EmptyDict
  /\ ranked_games = << >>
  /\ player_to_id = EmptyDict
  /\ all_player_names = {}
  /\ player_game_stats = EmptyDict
  /\ player_playlist = EmptyLedger
  /\ rankhistory = EmptyDict
  /\ games_to_process_for_xp = << >>
  /\ game_num = 0

\* main(), lines 1158-1167: nothing new and nothing changed, return
NothingToProcess ==
  /\ pc = "idle"
  /\ LET ps == load_processed_state
         chg == check_for_changes(FileIds, manual_playlists, ps)
     IN /\ chg.new_files = {} /\ chg.changed_playlists = {}
        /\ processed_state' = ps
        /\ needs_full_rebuild' = chg.needs_full_rebuild
        /\ new_files' = chg.new_files
        /\ changed_playlists' = chg.changed_playlists
  /\ pc' = "returned"
  /\ UNCHANGED <<incremental_mode, saved_player_state, rankstats, game_playlist,
                 ranked_games, player_to_id, all_player_names, player_game_stats,
                 player_playlist, rankhistory, games_to_process_for_xp, game_num>>
  /\ UNCHANGED <<filevars, rankvars, xpvars, seriesvars, outvars, scenvars,
                 botvars>>

\* main(), lines 1158-1285: plan the run, STEP 1 and STEP 2
PlanRun ==
  /\ pc = "idle"
  /\ LET ps == load_processed_state
         chg == check_for_changes(FileIds, manual_playlists, ps)
         inc0 == ~chg.needs_full_rebuild /\ chg.new_files # {}
         saved == IF inc0 THEN load_player_state_from_processed(ps) ELSE EmptyDict
         inc == IncrementalMode(chg.needs_full_rebuild, chg.new_files, saved)
         gp == [f \in FileIds |-> determine_playlist(f, active_tag, manual_playlists)]
     IN /\ ~(chg.new_files = {} /\ chg.changed_playlists = {})
        /\ processed_state' = ps
        /\ needs_full_rebuild' = chg.needs_full_rebuild
        /\ new_files' = chg.new_files
        /\ changed_playlists' = chg.changed_playlists
        /\ incremental_mode' = inc
        /\ saved_player_state' = saved
        /\ rankstats' = IF inc THEN RestoreRankstats(load_rankstats, saved)
                        ELSE ZeroRankstats(load_rankstats)
        /\ game_playlist' = gp
        /\ ranked_games' = RankedGames(gp, 1)
  /\ pc' = "resolve"
  /\ UNCHANGED <<player_to_id, all_player_names, player_game_stats, player_playlist,
                 rankhistory, games_to_process_for_xp, game_num>>
  /\ UNCHANGED <<filevars, rankvars, xpvars, seriesvars, outvars, scenvars,
                 botvars>>

(***************************************************************************)
(* Run Orchestrator: resolve the players, restore the ledger (STEP 3)      *)
(***************************************************************************)
\* one of the per-name dicts taken from the saved playlists of a user
SavedField(saved, u, field, default) ==
  [pl \in DOMAIN saved[u].playlists |-> Get(saved[u].playlists[pl], field, default)]

Overlay(d, e) ==
  [k \in (DOMAIN d) \cup (DOMAIN e) |-> IF k \in DOMAIN e THEN e[k] ELSE d[k]]

\* lines 1325-1329: the name -> id mapping the run starts from
RestoredNames(inc, ps) == IF inc THEN ps.player_name_to_id ELSE EmptyDict

\* lines 1331-1418: names met in the games; a name that is already mapped is
\* skipped before its tracking dicts are initialised
ResolvedNames(names, restored) ==
  [n \in names \cup (DOMAIN restored) |->
     IF n \in DOMAIN restored THEN restored[n] ELSE resolve_player_to_discord(n)]

InitialisedNames(names, restored) == names \ (DOMAIN restored)

FromSaved(inc, saved, n) == inc /\ resolve_player_to_discord(n) \in DOMAIN saved

InitGameStats(names, restored, inc, saved) ==
  [n \in InitialisedNames(names, restored) |->
     IF FromSaved(inc, saved, n)
     THEN saved[resolve_player_to_discord(n)].total_games ELSE 0]

InitTracking(names, restored, inc, saved, field) ==
  [n \in InitialisedNames(names, restored) |->
     IF FromSaved(inc, saved, n)
     THEN SavedField(saved, resolve_player_to_discord(n), field, 0)
     ELSE EmptyDict]

\* lines 1420-1433: rank and highest rank of every name met in the games
InitRanks(names, p2i, inc, saved, field) ==
  [n \in names |->
     IF inc /\ n \in DOMAIN p2i /\ p2i[n] \in DOMAIN saved
     THEN SavedField(saved, p2i[n], field, 1) ELSE EmptyDict]

InitLedger(names, restored, p2i, inc, saved) ==
  [xp |-> InitTracking(names, restored, inc, saved, "xp"),
   wins |-> InitTracking(names, restored, inc, saved, "wins"),
   losses |-> InitTracking(names, restored, inc, saved, "losses"),
   games |-> InitTracking(names, restored, inc, saved, "games"),
   rank |-> InitRanks(names, p2i, inc, saved, "rank"),
   highest_rank |-> InitRanks(names, p2i, inc, saved, "highest_rank")]

\* lines 1436-1449 raise KeyError: a mapped name of a saved user with saved
\* playlists has no entry in the tracking dicts
RestoreRaises(led, p2i, inc, saved) ==
  /\ inc /\ saved # EmptyDict
  /\ \E n \in DOMAIN p2i :
       /\ p2i[n] \in DOMAIN saved
       /\ saved[p2i[n]].playlists # EmptyDict
       /\ (n \notin DOMAIN led.xp \/ n \notin DOMAIN led.rank)

RestoreField(d, p2i, saved, field, default) ==
  [n \in DOMAIN d |->
     IF n \in DOMAIN p2i /\ p2i[n] \in DOMAIN saved
     THEN Overlay(d[n], SavedField(saved, p2i[n], field, default)) ELSE d[n]]

\* lines 1436-1449: every name of a saved user takes the saved playlist state
RestoreLedger(led, p2i, inc, saved) ==
  IF inc /\ saved # EmptyDict
  THEN [xp |-> RestoreField(led.xp, p2i, saved, "xp", 0),
        wins |-> RestoreField(led.wins, p2i, saved, "wins", 0),
        losses |-> RestoreField(led.losses, p2i, saved, "losses", 0),
        games |-> RestoreField(led.games, p2i, saved, "games", 0),
        rank |-> RestoreField(led.rank, p2i, saved, "rank", 1),
        highest_rank |-> RestoreField(led.highest_rank, p2i, saved, "highest_rank", 1)]
  ELSE led

\* lines 1450-1456
RestoreGameStats(pgs, p2i, inc, saved) ==
  IF inc /\ saved # EmptyDict
  THEN [n \in DOMAIN pgs |->
          IF n \in DOMAIN p2i /\ p2i[n] \in DOMAIN saved
          THEN saved[p2i[n]].total_games ELSE pgs[n]]
  ELSE pgs

\* STEP 3a, lines 1464-1496: the games counted for the overall stats
CountGames(pgs, inc, new) ==
  [n \in DOMAIN pgs |->
     pgs[n] + Cardinality({f \in FileIds : n \in GameNames(f) /\ (inc => f \in new)})]

\* lines 1498-1505
GamesToProcessForXp(ranked, inc, new) ==
  SelectSeq(ranked, LAMBDA f : inc => f \in new)

\* main(), lines 1319-1505
ResolvePlayers ==
  /\ pc = "resolve"
  /\ LET names == UNION {GameNames(f) : f \in FileIds}
         restored == RestoredNames(incremental_mode, processed_state)
         p2i == ResolvedNames(names, restored)
         led == InitLedger(names, restored, p2i, incremental_mode, saved_player_state)
         pgs == InitGameStats(names, restored, incremental_mode, saved_player_state)
     IN /\ all_player_names' = names
        /\ player_to_id' = p2i
        /\ IF RestoreRaises(led, p2i, incremental_mode, saved_player_state)
           THEN /\ pc' = "crashed"
                /\ player_playlist' = led
                /\ player_game_stats' = pgs
                /\ UNCHANGED <<rankhistory, games_to_process_for_xp, game_num>>
           ELSE /\ pc' = "xp"
                /\ player_playlist' =
                     RestoreLedger(led, p2i, incremental_mode, saved_player_state)
                /\ player_game_stats' =
                     CountGames(RestoreGameStats(pgs, p2i, incremental_mode,
                                                 saved_player_state),
                                incremental_mode, new_files)
                /\ rankhistory' = IF incremental_mode THEN rankhistory_file ELSE EmptyDict
                /\ games_to_process_for_xp' =
                     GamesToProcessForXp(ranked_games, incremental_mode, new_files)
                /\ game_num' = 1
  /\ UNCHANGED <<processed_state, needs_full_rebuild, new_files, changed_playlists,
                 incremental_mode, saved_player_state, rankstats, game_playlist,
                 ranked_games>>
  /\ UNCHANGED <<filevars, rankvars, xpvars, seriesvars, outvars, scenvars,
                 botvars>>

(***************************************************************************)
(* Progression Ledger (STEP 3b)                                            *)
(***************************************************************************)
\* the value written to every playlist of the name
Set2_EveryPlaylist(d, n, pl, v) ==
  [d EXCEPT ![n] = [x \in (DOMAIN d[n]) \cup {pl} |-> v]]

Set2(d, n, pl, v) == [d EXCEPT ![n] = Put(d[n], pl, v)]

\* lines 1542-1549: first ranked game of the name in this playlist
InitPlaylist(led, n, pl) ==
  IF pl \in DOMAIN led.xp[n] THEN led
  ELSE [xp |-> Set2(led.xp, n, pl, 0), wins |-> Set2(led.wins, n, pl, 0),
        losses |-> Set2(led.losses, n, pl, 0), games |-> Set2(led.games, n, pl, 0),
        rank |-> Set2(led.rank, n, pl, 1),
        highest_rank |-> Set2(led.highest_rank, n, pl, 1)]

\* the xp after a loss without the floor of lines 1575-1577
XpAfterLoss_NoClamp(xp, change) == xp + change

\* lines 1555-1582: the xp after the game
XpAfterLoss(xp, change) == IF xp + change < 0 THEN 0 ELSE xp + change

\* the highest rank replaced by the rank after the game
HighestAfter_Current(highest, new_rank) == new_rank

\* lines 1587-1589
HighestAfter(highest, new_rank) == IF new_rank > highest THEN new_rank ELSE highest

\* the result without the else branch of lines 1580-1582
GameResult_NoTie(n, wl) == IF n \in wl.winners THEN "win" ELSE "loss"

\* lines 1555-1582: result and xp change of one player
GameResult(n, wl) ==
  IF n \in wl.winners THEN "win" ELSE IF n \in wl.losers THEN "loss" ELSE "tie"

XpChangeWith(result, rank_before, cfg) ==
  IF result = "win"
  THEN ScaleXp(cfg.game_win, get_win_factor(rank_before, cfg.win_factors))
  ELSE IF result = "loss"
       THEN ScaleXp(cfg.game_loss, get_loss_factor(rank_before, cfg.loss_factors))
       ELSE 0

\* lines 1119-1124: the configuration of the run
xp_config ==
  [game_win |-> xp_win, game_loss |-> xp_loss,
   win_factors |-> win_factors, loss_factors |-> loss_factors,
   rank_thresholds |-> rank_thresholds]

XpChange(result, rank_before) == XpChangeWith(result, rank_before, xp_config)

\* lines 1551-1589: the (name, playlist) entry after a game with this result
EntryAfter(e, result, cfg) ==
  LET xp_change == XpChangeWith(result, e.rank, cfg)
      new_xp == IF result = "loss" THEN XpAfterLoss(e.xp, xp_change)
                ELSE e.xp + xp_change
      new_rank == calculate_rank(new_xp, cfg.rank_thresholds)
  IN [xp |-> new_xp,
      wins |-> e.wins + (IF result = "win" THEN 1 ELSE 0),
      losses |-> e.losses + (IF result = "loss" THEN 1 ELSE 0),
      games |-> e.games + 1,
      rank |-> new_rank,
      highest_rank |-> HighestAfter(e.highest_rank, new_rank)]

\* the (name, playlist) entry of the ledger
EntryOf(led, n, pl) ==
  [xp |-> led.xp[n][pl], wins |-> led.wins[n][pl], losses |-> led.losses[n][pl],
   games |-> led.games[n][pl], rank |-> led.rank[n][pl],
   highest_rank |-> led.highest_rank[n][pl]]

\* lines 1529-1612 for one player of the game: ledger and rank history
ApplyPlayer(st, f, pl, n, wl, p2i) ==
  IF n \notin DOMAIN st.led.xp THEN st
  ELSE LET led == InitPlaylist(st.led, n, pl)
           user_id == Get(p2i, n, None)
           before == EntryOf(led, n, pl)
           result == GameResult(n, wl)
           after == EntryAfter(before, result, xp_config)
           entry == [source_file |-> f, playlist |-> pl,
                     xp_change |-> XpChange(result, before.rank),
                     xp_total |-> after.xp, rank_before |-> before.rank,
                     rank_after |-> after.rank, result |-> result]
       IN [led |->
             [xp |-> Set2(led.xp, n, pl, after.xp),
              wins |-> Set2(led.wins, n, pl, after.wins),
              losses |-> Set2(led.losses, n, pl, after.losses),
              games |-> Set2(led.games, n, pl, after.games),
              rank |-> Set2(led.rank, n, pl, after.rank),
              highest_rank |-> Set2(led.highest_rank, n, pl, after.highest_rank)],
           hist |->
             IF user_id # None
             THEN Put(st.hist, user_id, Append(Get(st.hist, user_id, << >>), entry))
             ELSE st.hist]

RECURSIVE ApplyPlayers(_, _, _, _, _, _, _)
ApplyPlayers(st, f, pl, players, i, wl, p2i) ==
  IF i > Len(players) THEN st
  ELSE ApplyPlayers(ApplyPlayer(st, f, pl, players[i].name, wl, p2i),
                    f, pl, players, i + 1, wl, p2i)

\* lines 1507-1614 for one game
ApplyGameTo(st, f, gp, p2i) ==
  IF gp[f] = None THEN st
  ELSE ApplyPlayers(st, f, gp[f], stats_files[f].players, 1,
                    determine_winners_losers(stats_files[f]), p2i)

\* main(), one iteration of the loop at line 1507
ApplyGame ==
  /\ pc = "xp"
  /\ game_num <= Len(games_to_process_for_xp)
  /\ LET st == ApplyGameTo([led |-> player_playlist, hist |-> rankhistory],
                           games_to_process_for_xp[game_num], game_playlist,
                           player_to_id)
     IN /\ player_playlist' = st.led
        /\ rankhistory' = st.hist
  /\ game_num' = game_num + 1
  /\ UNCHANGED <<pc, processed_state, needs_full_rebuild, new_files, changed_playlists,
                 incremental_mode, saved_player_state, rankstats, game_playlist,
                 ranked_games, player_to_id, all_player_names, player_game_stats,
                 games_to_process_for_xp>>
  /\ UNCHANGED <<filevars, rankvars, xpvars, seriesvars, outvars, scenvars,
                 botvars>>

(***************************************************************************)
(* Run Orchestrator: consolidation per identity (STEP 4)                   *)
(***************************************************************************)
NamesOf(u, names, p2i) == {n \in names : p2i[n] = u}

\* lines 1635-1641, 1654-1655, 1664 raise KeyError for a name without tracking
ConsolidateRaises(names, pgs, led) ==
  \E n \in names : n \notin DOMAIN pgs \/ n \notin DOMAIN led.xp

SumField(d, ns, pl) == SumF([n \in ns |-> Get(d[n], pl, 0)], ns)

SumAll(d, ns) ==
  SumF([n \in ns |-> SumF(d[n], DOMAIN d[n])], ns)

\* lines 1671-1695: the entry of one identity and one playlist
PlaylistData(led, ns, pl) ==
  LET playlist_xp == SumField(led.xp, ns, pl)
  IN [xp |-> playlist_xp,
      rank |-> calculate_rank(playlist_xp, rank_thresholds),
      highest_rank |-> MaxF([n \in ns |-> Get(led.highest_rank[n], pl, 1)], ns, 1),
      wins |-> SumField(led.wins, ns, pl),
      losses |-> SumField(led.losses, ns, pl),
      games |-> SumField(led.games, ns, pl)]

\* lines 1627-1721 for one identity
ConsolidateUser(entry, ns, pgs, led) ==
  LET pls == UNION {DOMAIN led.xp[n] : n \in ns}
      data == [pl \in pls |-> PlaylistData(led, ns, pl)]
      primary_xp == MaxF([pl \in pls |-> data[pl].xp], pls, 0)
  IN [entry EXCEPT
        !.total_games = SumF(pgs, ns),
        !.wins = SumAll(led.wins, ns),
        !.losses = SumAll(led.losses, ns),
        !.playlists = data,
        !.xp = primary_xp,
        !.rank = IF primary_xp > 0 THEN calculate_rank(primary_xp, rank_thresholds) ELSE 1,
        !.highest_rank = MaxF([pl \in pls |-> data[pl].highest_rank], pls, 1)]

Consolidated(rs, names, p2i, pgs, led) ==
  [u \in DOMAIN rs |->
     IF NamesOf(u, names, p2i) # {}
     THEN ConsolidateUser(rs[u], NamesOf(u, names, p2i), pgs, led)
     ELSE rs[u]]

\* main(), lines 1616-1721
Consolidate ==
  /\ pc = "xp"
  /\ game_num > Len(games_to_process_for_xp)
  /\ IF ConsolidateRaises(all_player_names, player_game_stats, player_playlist)
     THEN pc' = "crashed" /\ UNCHANGED rankstats
     ELSE /\ pc' = "save"
          /\ rankstats' = Consolidated(rankstats, all_player_names, player_to_id,
                                       player_game_stats, player_playlist)
  /\ UNCHANGED <<processed_state, needs_full_rebuild, new_files, changed_playlists,
                 incremental_mode, saved_player_state, game_playlist, ranked_games,
                 player_to_id, all_player_names, player_game_stats, player_playlist,
                 rankhistory, games_to_process_for_xp, game_num>>
  /\ UNCHANGED <<filevars, rankvars, xpvars, seriesvars, outvars, scenvars,
                 botvars>>

(***************************************************************************)
(* Run Orchestrator: persistence (STEP 5 and the checkpoint)               *)
(***************************************************************************)
\* lines 2063-2081
NewPlayerState(rs) ==
  [u \in {v \in DOMAIN rs : rs[v].total_games > 0 \/ rs[v].wins > 0 \/ rs[v].losses > 0} |->
     [xp |-> rs[u].xp, rank |-> rs[u].rank, wins |-> rs[u].wins,
      losses |-> rs[u].losses, total_games |-> rs[u].total_games,
      highest_rank |-> rs[u].highest_rank, playlists |-> rs[u].playlists]]

\* lines 2083-2088
NewProcessedState(gp, rs, p2i) ==
  [games |-> gp, player_state |-> NewPlayerState(rs), player_name_to_id |-> p2i]

\* ranks.json written together with the checkpoint, ahead of the later steps
SaveRanks_CheckpointFirst ==
  /\ pc = "save"
  /\ ranks_file' = rankstats
  /\ processed_state_file' =
       [readable |-> TRUE,
        content |-> NewProcessedState(game_playlist, rankstats, player_to_id)]
  /\ pc' = "history"
  /\ UNCHANGED <<stats_files, manual_playlists, active_tag, rankhistory_file, edits>>
  /\ UNCHANGED <<processed_state, needs_full_rebuild, new_files, changed_playlists,
                 incremental_mode, saved_player_state, rankstats, game_playlist,
                 ranked_games, player_to_id, all_player_names, player_game_stats,
                 player_playlist, rankhistory, games_to_process_for_xp, game_num>>
  /\ UNCHANGED <<rankvars, xpvars, seriesvars, outvars, scenvars, botvars>>

\* lines 1733-1776: ranks.json
SaveRanks ==
  /\ pc = "save"
  /\ ranks_file' = rankstats
  /\ pc' = "history"
  /\ UNCHANGED <<stats_files, manual_playlists, active_tag, processed_state_file,
                 rankhistory_file, edits>>
  /\ UNCHANGED <<processed_state, needs_full_rebuild, new_files, changed_playlists,
                 incremental_mode, saved_player_state, rankstats, game_playlist,
                 ranked_games, player_to_id, all_player_names, player_game_stats,
                 player_playlist, rankhistory, games_to_process_for_xp, game_num>>
  /\ UNCHANGED <<rankvars, xpvars, seriesvars, outvars, scenvars, botvars>>

\* lines 1943-1946: rankhistory.json
SaveRankHistory ==
  /\ pc = "history"
  /\ rankhistory_file' = rankhistory
  /\ pc' = "state"
  /\ UNCHANGED <<stats_files, manual_playlists, active_tag, processed_state_file,
                 ranks_file, edits>>
  /\ UNCHANGED <<processed_state, needs_full_rebuild, new_files, changed_playlists,
                 incremental_mode, saved_player_state, rankstats, game_playlist,
                 ranked_games, player_to_id, all_player_names, player_game_stats,
                 player_playlist, rankhistory, games_to_process_for_xp, game_num>>
  /\ UNCHANGED <<rankvars, xpvars, seriesvars, outvars, scenvars, botvars>>

\* open(..., 'w') of an output file raises: the run ends there
WriteFails ==
  /\ pc \in {"save", "history"}
  /\ pc' = "io_error"
  /\ UNCHANGED <<processed_state, needs_full_rebuild, new_files, changed_playlists,
                 incremental_mode, saved_player_state, rankstats, game_playlist,
                 ranked_games, player_to_id, all_player_names, player_game_stats,
                 player_playlist, rankhistory, games_to_process_for_xp, game_num>>
  /\ UNCHANGED <<filevars, rankvars, xpvars, seriesvars, outvars, scenvars,
                 botvars>>

\* lines 2083-2090: save_processed_state, the last write of the run
SaveProcessedState ==
  /\ pc = "state"
  /\ processed_state_file' =
       [readable |-> TRUE,
        content |-> NewProcessedState(game_playlist, rankstats, player_to_id)]
  /\ pc' = "done"
  /\ UNCHANGED <<stats_files, manual_playlists, active_tag, ranks_file,
                 rankhistory_file, edits>>
  /\ UNCHANGED <<processed_state, needs_full_rebuild, new_files, changed_playlists,
                 incremental_mode, saved_player_state, rankstats, game_playlist,
                 ranked_games, player_to_id, all_player_names, player_game_stats,
                 player_playlist, rankhistory, games_to_process_for_xp, game_num>>
  /\ UNCHANGED <<rankvars, xpvars, seriesvars, outvars, scenvars, botvars>>

\* the process ends (return, normal end, or uncaught exception)
Exit ==
  /\ pc \in {"returned", "done", "crashed", "io_error"}
  /\ pc' = "idle"
  /\ processed_state' = DefaultProcessedState
  /\ needs_full_rebuild' = FALSE
  /\ new_files' = {}
  /\ changed_playlists' = {}
  /\ incremental_mode' = FALSE
  /\ saved_player_state' = EmptyDict
  /\ rankstats' = DefaultRankstats
  /\ game_playlist' = EmptyDict
  /\ ranked_games' = << >>
  /\ player_to_id' = EmptyDict
  /\ all_player_names' = {}
  /\ player_game_stats' = EmptyDict
  /\ player_playlist' = EmptyLedger
  /\ rankhistory' = EmptyDict
  /\ games_to_process_for_xp' = << >>
  /\ game_num' = 0
  /\ UNCHANGED <<filevars, rankvars, xpvars, seriesvars, outvars, scenvars,
                 botvars>>

(***************************************************************************)
(* The environment between two runs                                        *)
(***************************************************************************)
\* a new game file, later than every file present
AddFile ==
  /\ pc = "idle"
  /\ Len(stats_files) < MaxFiles
  /\ \E g \in GamePool, t \in ActiveTags :
       /\ stats_files' = Append(stats_files, g)
       /\ active_tag' = Append(active_tag, t)
  /\ UNCHANGED <<manual_playlists, processed_state_file, ranks_file,
                 rankhistory_file, edits>>
  /\ UNCHANGED <<runvars, rankvars, xpvars, seriesvars, outvars, scenvars,
                 botvars>>

\* manual_playlists.json gets or changes the entry of a file
SetManual ==
  /\ pc = "idle"
  /\ edits < MaxEdits
  /\ \E f \in FileIds, t \in ManualTags :
       /\ Get(manual_playlists, f, None) # t
       /\ manual_playlists' = Put(manual_playlists, f, t)
  /\ edits' = edits + 1
  /\ UNCHANGED <<stats_files, active_tag, processed_state_file, ranks_file,
                 rankhistory_file>>
  /\ UNCHANGED <<runvars, rankvars, xpvars, seriesvars, outvars, scenvars,
                 botvars>>

\* the active match changes, and with it what a file is classified as
ChangeActiveMatch ==
  /\ pc = "idle"
  /\ edits < MaxEdits
  /\ \E f \in FileIds, t \in ActiveTags :
       /\ active_tag[f] # t
       /\ active_tag' = [active_tag EXCEPT ![f] = t]
  /\ edits' = edits + 1
  /\ UNCHANGED <<stats_files, manual_playlists, processed_state_file, ranks_file,
                 rankhistory_file>>
  /\ UNCHANGED <<runvars, rankvars, xpvars, seriesvars, outvars, scenvars,
                 botvars>>

\* processed_state.json is deleted or damaged
LoseCheckpoint ==
  /\ pc = "idle"
  /\ edits < MaxEdits
  /\ processed_state_file.readable
  /\ processed_state_file' = NoCheckpoint
  /\ edits' = edits + 1
  /\ UNCHANGED <<stats_files, manual_playlists, active_tag, ranks_file,
                 rankhistory_file>>
  /\ UNCHANGED <<runvars, rankvars, xpvars, seriesvars, outvars, scenvars,
                 botvars>>

(***************************************************************************)
(* Rank lookups on their own                                               *)
(***************************************************************************)
Unbounded == 1000000000

\* a gap-free table of TopLevel levels, each w wide, the last one up to top
GenTable(w, top) ==
  [l \in 1..TopLevel |->
     IF l < TopLevel THEN <<(l - 1) * w, l * w - 1>> ELSE <<(TopLevel - 1) * w, top>>]

RankTables ==
  {DefaultThresholds}
    \cup {GenTable(w, Unbounded) : w \in 1..MaxWidth}
    \cup {GenTable(w, TopLevel * w - 1) : w \in 1..MaxWidth}

\* xp values looked up in a table: every level of a generated table and the
\* values next to the bounds of the first and last levels
XpSamples(t) ==
  IF t = DefaultThresholds
  THEN {0, 88, 89, 188, 189, 10238, 10239, Unbounded, Unbounded + 1}
  ELSE (0..(t[TopLevel][1] + t[2][1] + 1)) \cup {Unbounded, Unbounded + 1}

\* no lookup done: the results hold no level
NoRanks == <<0, 0>>

RankIdle ==
  /\ rk_thresholds = DefaultThresholds
  /\ rk_a = 0 /\ rk_b = 0
  /\ rk_engine = NoRanks /\ rk_bot = NoRanks /\ rk_playlist = NoRanks

\* the three lookups applied to the xp values rk_a <= rk_b
RankLookup ==
  /\ rk_engine = NoRanks
  /\ rk_engine' = <<calculate_rank(rk_a, rk_thresholds),
                    calculate_rank(rk_b, rk_thresholds)>>
  /\ rk_bot' = <<bot_calculate_rank(rk_a, rk_thresholds),
                 bot_calculate_rank(rk_b, rk_thresholds)>>
  /\ rk_playlist' = <<calculate_playlist_rank(rk_a, rk_thresholds),
                      calculate_playlist_rank(rk_b, rk_thresholds)>>
  /\ UNCHANGED <<rk_thresholds, rk_a, rk_b>>
  /\ UNCHANGED <<filevars, runvars, xpvars, seriesvars, outvars, scenvars,
                 botvars>>

(***************************************************************************)
(* One player of one ranked game, under any configuration                  *)
(***************************************************************************)
\* the team column of a game file: Red, Blue, another team, or no team
TeamNames == {"Red", "Blue", "Green", ""}

\* the three players of the games drawn here
PlayerRow(n, t, sc) == [name |-> n, team |-> t, score_numeric |-> sc]

OutcomeGames ==
  {[players |-> <<PlayerRow("a", t[1], sc[1]), PlayerRow("b", t[2], sc[2]),
                  PlayerRow("c", t[3], sc[3])>>] :
     t \in [1..3 -> TeamNames], sc \in [1..3 -> 0..MaxScore]}

\* configurations: amounts per win and per loss, factor tables in percent
XpConfigs ==
  {[game_win |-> 100, game_loss |-> -100, win_factors |-> EmptyDict,
    loss_factors |-> EmptyDict, rank_thresholds |-> DefaultThresholds],
   [game_win |-> 100, game_loss |-> -100, win_factors |-> [r \in {41} |-> 50],
    loss_factors |-> [r \in {1} |-> 50], rank_thresholds |-> DefaultThresholds],
   [game_win |-> 10, game_loss |-> -10, win_factors |-> [r \in 41..50 |-> 67],
    loss_factors |-> [r \in 1..29 |-> 67], rank_thresholds |-> DefaultThresholds],
   [game_win |-> 50, game_loss |-> -10, win_factors |-> [r \in {50} |-> 20],
    loss_factors |-> [r \in {29, 30} |-> 67], rank_thresholds |-> DefaultThresholds]}

\* xp a player can hold before the game: levels 1, 1, 29, 30, 40, 41, 50
XpBefore == {0, 5, 4989, 5239, 7739, 7989, 10239}

\* an entry reached with this xp after some games
EntryWith(xp, thresholds) ==
  [xp |-> xp, wins |-> 3, losses |-> 2, games |-> 6,
   rank |-> calculate_rank(xp, thresholds),
   highest_rank |-> calculate_rank(xp, thresholds)]

NoOutcome == [done |-> FALSE, winners |-> {}, losers |-> {}]

XpIdle ==
  /\ fx_game = Game("a", "b", 1, 0)
  /\ fx_name = "a"
  /\ fx_cfg = xp_config
  /\ fx_before = EntryWith(0, rank_thresholds)
  /\ fx_outcome = NoOutcome
  /\ fx_after = fx_before

\* lines 1508 and 1551-1589 for the player fx_name of the game fx_game
ApplyResult ==
  /\ ~fx_outcome.done
  /\ LET wl == determine_winners_losers(fx_game)
     IN /\ fx_outcome' = [done |-> TRUE, winners |-> wl.winners, losers |-> wl.losers]
        /\ fx_after' = EntryAfter(fx_before, GameResult(fx_name, wl), fx_cfg)
  /\ UNCHANGED <<fx_game, fx_name, fx_cfg, fx_before>>
  /\ UNCHANGED <<filevars, runvars, rankvars, seriesvars, outvars, scenvars,
                 botvars>>

(***************************************************************************)
(* Series Detector                                                         *)
(***************************************************************************)
\* str.lower() on the names that occur
lower(n) == IF n = "A" THEN "a" ELSE n

\* lines 152-161: the Red names and the Blue names, in this order
get_team_signature(game) ==
  <<{lower(n) : n \in TeamPlayers(game, "Red")},
    {lower(n) : n \in TeamPlayers(game, "Blue")}>>

\* lines 1784-1788: alias or discord name of the identity, else the name
DisplayNames == [u \in Users |-> IF u = "u1" THEN "Alpha" ELSE "Bravo"]

get_display_name(n) ==
  IF n \in Names THEN DisplayNames[resolve_player_to_discord(n)] ELSE n

\* lines 186-187: sorted(games, key=Start Time), a stable sort
RECURSIVE InsertByStart(_, _)
InsertByStart(sorted, g) ==
  IF sorted = << >> THEN <<g>>
  ELSE IF sorted[Len(sorted)].start_time <= g.start_time THEN Append(sorted, g)
       ELSE Append(InsertByStart(SubSeq(sorted, 1, Len(sorted) - 1), g),
                   sorted[Len(sorted)])

RECURSIVE SortedFrom(_, _, _)
SortedFrom(games, i, acc) ==
  IF i > Len(games) THEN acc
  ELSE SortedFrom(games, i + 1, InsertByStart(acc, games[i]))

sorted_games(games) == SortedFrom(games, 1, << >>)

\* lines 200-212: the team of the first player of the game who is a winner
game_winner(game) ==
  LET winners == determine_winners_losers(game).winners
      idx == {j \in DOMAIN game.players : game.players[j].name \in winners}
  IN IF idx = {} THEN None
     ELSE LET first == CHOOSE j \in idx : \A k \in idx : j <= k
          IN IF game.players[first].team = "Red" THEN "Red"
             ELSE IF game.players[first].team = "Blue" THEN "Blue" ELSE None

\* lines 218-225 and 248-255: the entry of a game in its series
GameEntry(game) ==
  [timestamp |-> game.start_time, winner |-> game_winner(game),
   source_file |-> game.source_file]

\* the type table without its Bo7 row
series_type_NoBo7(total_games) ==
  IF total_games <= 3 THEN "Bo3"
  ELSE IF total_games <= 5 THEN "Bo5" ELSE "Custom"

\* lines 277-291 of _finalize_series
series_type(total_games) ==
  IF total_games <= 3 THEN "Bo3"
  ELSE IF total_games <= 5 THEN "Bo5"
  ELSE IF total_games <= 7 THEN "Bo7" ELSE "Custom"

\* half of the games as the threshold of every series
wins_needed_Half(total_games) == total_games \div 2

wins_needed(total_games) ==
  IF total_games <= 3 THEN 2
  ELSE IF total_games <= 5 THEN 3
  ELSE IF total_games <= 7 THEN 4 ELSE (total_games \div 2) + 1

\* the winner without the final Tie branch
series_winner_NoTie(red_wins, blue_wins, needed) ==
  IF red_wins >= needed THEN "Red"
  ELSE IF blue_wins >= needed THEN "Blue"
  ELSE IF red_wins > blue_wins THEN "Red" ELSE "Blue"

\* lines 293-303 of _finalize_series
series_winner(red_wins, blue_wins, needed) ==
  IF red_wins >= needed THEN "Red"
  ELSE IF blue_wins >= needed THEN "Blue"
  ELSE IF red_wins > blue_wins THEN "Red"
  ELSE IF blue_wins > red_wins THEN "Blue" ELSE "Tie"

\* lines 271-303
finalize_series(series) ==
  [series EXCEPT
     !.series_type = series_type(Len(series.games)),
     !.winner = series_winner(series.red_wins, series.blue_wins,
                              wins_needed(Len(series.games)))]

\* lines 238-260: a new series opened by this game
NewSeries(game, counter) ==
  [series_id |-> counter,
   playlist |-> game.playlist,
   red_team |-> {get_display_name(n) : n \in TeamPlayers(game, "Red")},
   blue_team |-> {get_display_name(n) : n \in TeamPlayers(game, "Blue")},
   games |-> <<GameEntry(game)>>,
   red_wins |-> IF game_winner(game) = "Red" THEN 1 ELSE 0,
   blue_wins |-> IF game_winner(game) = "Blue" THEN 1 ELSE 0,
   start_time |-> game.start_time, end_time |-> game.start_time,
   winner |-> "Ongoing", series_type |-> "Custom"]

\* the added game counted for Blue whenever Red did not win it
AddGame_TieToBlue(series, game) ==
  [series EXCEPT
     !.games = Append(@, GameEntry(game)),
     !.end_time = game.start_time,
     !.red_wins = @ + (IF game_winner(game) = "Red" THEN 1 ELSE 0),
     !.blue_wins = @ + (IF game_winner(game) = "Red" THEN 0 ELSE 1)]

\* lines 216-231: the game continues the open series
AddGame(series, game) ==
  [series EXCEPT
     !.games = Append(@, GameEntry(game)),
     !.end_time = game.start_time,
     !.red_wins = @ + (IF game_winner(game) = "Red" THEN 1 ELSE 0),
     !.blue_wins = @ + (IF game_winner(game) = "Blue" THEN 1 ELSE 0)]

\* lines 192-260, one iteration: st = [list, open, sig, counter], open being
\* the open series in a sequence of length 0 or 1
SeriesStep(st, game) ==
  LET team_sig == get_team_signature(game)
  IN IF st.open # << >> /\ st.sig = team_sig
     THEN [st EXCEPT !.open = <<AddGame(st.open[1], game)>>]
     ELSE [list |-> IF st.open # << >>
                    THEN Append(st.list, finalize_series(st.open[1]))
                    ELSE st.list,
           open |-> <<NewSeries(game, st.counter + 1)>>,
           sig |-> team_sig,
           counter |-> st.counter + 1]

RECURSIVE SeriesLoop(_, _, _)
SeriesLoop(st, games, i) ==
  IF i > Len(games) THEN st
  ELSE SeriesLoop(SeriesStep(st, games[i]), games, i + 1)

\* lines 163-269
detect_series(games) ==
  IF games = << >> THEN << >>
  ELSE LET st == SeriesLoop([list |-> << >>, open |-> << >>,
                             sig |-> << {}, {} >>, counter |-> 0],
                            sorted_games(games), 1)
       IN IF st.open # << >> THEN Append(st.list, finalize_series(st.open[1]))
          ELSE st.list

\* the games drawn for the detector: Red roster, Blue roster and the scores
Template(r, b, rs, bs) == [red |-> r, blue |-> b, rs |-> rs, bs |-> bs]

\* rosters that change, swap sides or differ in case only; Red or Blue wins
MixedTemplates ==
  {Template(r[1], r[2], sc[1], sc[2]) :
     r \in {<<"a", "b">>, <<"b", "a">>, <<"a", "c">>, <<"A", "b">>},
     sc \in {<<1, 0>>, <<0, 1>>}}

\* one pair of rosters; Red wins, Blue wins or a tie
LongTemplates ==
  {Template("a", "b", sc[1], sc[2]) : sc \in {<<1, 0>>, <<0, 1>>, <<1, 1>>}}

TemplateLists ==
  UNION {[1..n -> MixedTemplates] : n \in 0..MaxSeriesGames}
    \cup UNION {[1..n -> LongTemplates] : n \in 1..MaxLongSeries}

\* the sort key of a game without a Start Time: '' sorts before every time
MissingTime == 0

\* Start Time of the i-th of n games: ascending, descending, all the same,
\* or ascending with the Start Time of the last game missing
TimeModes == {"asc", "desc", "same", "missing"}

StartTime(mode, i, n) ==
  IF mode = "asc" THEN i
  ELSE IF mode = "desc" THEN n + 1 - i
  ELSE IF mode = "same" THEN 1
  ELSE IF i = n THEN MissingTime ELSE i

SeriesGame(t, start, f) ==
  [players |-> <<PlayerRow(t.red, "Red", t.rs), PlayerRow(t.blue, "Blue", t.bs)>>,
   start_time |-> start, source_file |-> f, playlist |-> PLAYLIST_MLG_4V4]

SeriesInputs ==
  {[i \in 1..Len(ts) |-> SeriesGame(ts[i], StartTime(mode, i, Len(ts)), i)] :
     ts \in TemplateLists, mode \in TimeModes}

NoSeries == [done |-> FALSE, list |-> << >>]

SeriesIdle ==
  /\ sd_games = << >>
  /\ sd_series = NoSeries

\* lines 1953-1959: the series of the games of one playlist
DetectSeries ==
  /\ ~sd_series.done
  /\ sd_series' = [done |-> TRUE, list |-> detect_series(sd_games)]
  /\ UNCHANGED sd_games
  /\ UNCHANGED <<filevars, runvars, rankvars, xpvars, outvars, scenvars,
                 botvars>>

(***************************************************************************)
(* The series of a run (series.json)                                       *)
(***************************************************************************)
NoAllSeries == [done |-> FALSE, list |-> << >>]

\* series.json before the first run that writes it
NoSeriesFile == [written |-> FALSE, series |-> << >>]

OutIdle ==
  /\ all_series = NoAllSeries
  /\ series_file = NoSeriesFile

\* lines 1264-1267 and 1282-1285: the games of a playlist, by file id.
\* ranked_games is the list object of MLG 4v4 when that playlist has games,
\* and extend() appends the games of the other three playlists to it
games_by_playlist(gp, pl) ==
  LET own == SelectIds(Len(stats_files), [f \in DOMAIN gp |-> gp[f] = pl], 1)
  IN IF pl = PLAYLIST_MLG_4V4 /\ own # << >> THEN RankedGames(gp, 1) ELSE own

\* a parsed game as the detector reads it; files sort by Start Time
PlaylistGame(f, gp) ==
  [players |-> stats_files[f].players, start_time |-> f, source_file |-> f,
   playlist |-> gp[f]]

\* lines 1953-1963: the series of the playlists, playlist after playlist
RECURSIVE AllSeriesFrom(_, _)
AllSeriesFrom(gp, k) ==
  IF k > Len(all_playlists) THEN << >>
  ELSE LET ids == games_by_playlist(gp, all_playlists[k])
       IN detect_series([i \in DOMAIN ids |-> PlaylistGame(ids[i], gp)])
            \o AllSeriesFrom(gp, k + 1)

\* main(), lines 1948-2008: detect the series and write series.json
SaveSeries ==
  /\ pc = "state"
  /\ ~all_series.done
  /\ all_series' = [done |-> TRUE, list |-> AllSeriesFrom(game_playlist, 1)]
  /\ series_file' = [written |-> TRUE, series |-> AllSeriesFrom(game_playlist, 1)]
  /\ UNCHANGED <<filevars, runvars, rankvars, xpvars, seriesvars, scenvars,
                 botvars>>

\* lines 2083-2090, reached after the series step
SaveStateAfterSeries ==
  /\ all_series.done
  /\ SaveProcessedState

\* tags a manual override and the active match give the files of a first run
ReplayManualTags == {PLAYLIST_MLG_4V4, "Other"}
ReplayActiveTags == {None, PLAYLIST_TEAM_HARDCORE}
ReplayPool == {Game("a", "b", 1, 0), Game("a2", "b", 0, 1)}

ManualDicts(n) == UNION {[D -> ReplayManualTags] : D \in SUBSET (1..n)}

(***************************************************************************)
(* A new player's games in one playlist                                    *)
(***************************************************************************)
ScenIdle ==
  /\ sc_pc = "idle"
  /\ sc_cfg = xp_config
  /\ sc_games = << >>
  /\ sc_trace = << >>

\* rank tables of a configuration with a gap (89..99 is in no level), with
\* an overlap (89..100 is in two levels) and with bounds that do not increase
GapTable == [DefaultThresholds EXCEPT ![2] = <<100, 188>>]
OverlapTable == [DefaultThresholds EXCEPT ![1] = <<0, 100>>]
ReversedTable == [DefaultThresholds EXCEPT ![2] = <<188, 89>>]

ConfigWith(win, loss, thresholds) ==
  [game_win |-> win, game_loss |-> loss, win_factors |-> EmptyDict,
   loss_factors |-> EmptyDict, rank_thresholds |-> thresholds]

\* 50 per win and -10 per loss with the default table and all factors 1.0
ScenarioConfig == ConfigWith(50, -10, DefaultThresholds)

ScenarioConfigs ==
  {ScenarioConfig, ConfigWith(100, -100, DefaultThresholds),
   ConfigWith(50, -10, GapTable), ConfigWith(50, -10, OverlapTable),
   ConfigWith(50, -10, ReversedTable)}

\* the games of the player "a": won, lost and tied
WonGame == Game("a", "b", 1, 0)
LostGame == Game("a", "b", 0, 1)
TiedGame == Game("a", "b", 1, 1)

ScenarioGames ==
  UNION {[1..n -> {WonGame, LostGame, TiedGame}] : n \in 0..MaxScenarioGames}

\* lines 1542-1549: the entry of a player before the first ranked game
NewEntry == [xp |-> 0, wins |-> 0, losses |-> 0, games |-> 0, rank |-> 1,
             highest_rank |-> 1]

\* main(), lines 1118-1124: the configuration is read and used as it is
LoadConfig ==
  /\ sc_pc = "load"
  /\ sc_pc' = "play"
  /\ sc_trace' = <<NewEntry>>
  /\ UNCHANGED <<sc_cfg, sc_games>>
  /\ UNCHANGED <<filevars, runvars, rankvars, xpvars, seriesvars, outvars,
                 botvars>>

\* lines 1508 and 1551-1589 for the player "a" in the next game
PlayMatch ==
  /\ sc_pc = "play"
  /\ Len(sc_trace) <= Len(sc_games)
  /\ LET game == sc_games[Len(sc_trace)]
         result == GameResult("a", determine_winners_losers(game))
     IN sc_trace' = Append(sc_trace, EntryAfter(sc_trace[Len(sc_trace)], result, sc_cfg))
  /\ UNCHANGED <<sc_pc, sc_cfg, sc_games>>
  /\ UNCHANGED <<filevars, runvars, rankvars, xpvars, seriesvars, outvars,
                 botvars>>

(***************************************************************************)
(* The rank-stats store of the bot (STATSRANKS_new.py, rankstats.json)     *)
(***************************************************************************)
\* commands the bot runs in one behaviour
MaxCommands == 3

PLAYLIST_TYPES == {"mlg_4v4", "team_hardcore", "double_team", "head_to_head"}

\* game_win and game_loss of the bot's default configuration
BotWinXp == 50
BotLossXp == 10

\* mmr of a new player, and the highest value set_mmr accepts
DefaultMmr == 1500
MaxMmr == 10000

\* highest_rank of a record that has no such key
NoHighest == 0

NoPlaylistStats == [xp |-> 0, wins |-> 0, losses |-> 0]

get_default_playlist_stats == [p \in PLAYLIST_TYPES |-> NoPlaylistStats]

\* lines 239-251: the record of a player the store does not know
NewPlayerStats ==
  [xp |-> 0, wins |-> 0, losses |-> 0, total_games |-> 0, mmr |-> DefaultMmr,
   playlist_stats |-> get_default_playlist_stats, highest_rank |-> 1]

\* the xp kept as it is, also below 0
ClampXp_None(xp) == xp

\* max(0, xp)
ClampXp(xp) == IF xp > 0 THEN xp ELSE 0

\* lines 306-339
calculate_highest_rank(player_stats) ==
  LET ps == player_stats.playlist_stats
      played == {p \in DOMAIN ps : ps[p].xp > 0}
      estimated_xp == player_stats.wins * BotWinXp + player_stats.losses * BotLossXp
  IN IF played # {}
     THEN MaxF([p \in played |-> calculate_playlist_rank(ps[p].xp, rank_thresholds)],
               played, 1)
     ELSE IF player_stats.xp > 0
          THEN calculate_playlist_rank(player_stats.xp, rank_thresholds)
          ELSE IF estimated_xp > 0
               THEN calculate_playlist_rank(estimated_xp, rank_thresholds)
               ELSE 1

\* lines 238-254 (and 201-216): the record the update starts from; a record
\* without playlist_stats has the empty dictionary here
InitPlayerStats(stats, u) ==
  IF u \notin DOMAIN stats THEN NewPlayerStats
  ELSE IF stats[u].playlist_stats = EmptyDict
       THEN [stats[u] EXCEPT !.playlist_stats = get_default_playlist_stats,
                             !.highest_rank = 1]
       ELSE stats[u]

\* lines 196-230; a key the update does not have is an addition of 0
update_player_stats(stats, u, stats_update) ==
  LET rec == InitPlayerStats(stats, u)
      upd == [rec EXCEPT !.xp = ClampXp(@ + stats_update.xp),
                         !.wins = @ + stats_update.wins,
                         !.losses = @ + stats_update.losses]
  IN Put(stats, u, [upd EXCEPT !.highest_rank = calculate_highest_rank(upd)])

\* lines 233-293
update_playlist_stats(stats, u, playlist_type, stats_update) ==
  LET rec == InitPlayerStats(stats, u)
      old == Get(rec.playlist_stats, playlist_type, NoPlaylistStats)
      playlist_stats == [xp |-> ClampXp(old.xp + stats_update.xp),
                         wins |-> old.wins + stats_update.wins,
                         losses |-> old.losses + stats_update.losses]
      upd == [rec EXCEPT
                !.playlist_stats = Put(@, playlist_type, playlist_stats),
                !.xp = ClampXp(@ + stats_update.xp),
                !.wins = @ + stats_update.wins,
                !.losses = @ + stats_update.losses,
                !.total_games = @ + stats_update.wins + stats_update.losses]
  IN Put(stats, u, [upd EXCEPT !.highest_rank = calculate_highest_rank(upd)])

\* lines 1070-1097: the store after set_mmr
set_mmr(stats, u, value) ==
  IF value < 0 \/ value > MaxMmr THEN stats
  ELSE IF u \notin DOMAIN stats
       THEN Put(stats, u, [xp |-> 0, wins |-> 0, losses |-> 0, total_games |-> 0,
                           mmr |-> value, playlist_stats |-> EmptyDict,
                           highest_rank |-> NoHighest])
       ELSE [stats EXCEPT ![u].mmr = value]

\* the players of the bot, and a guest of the queue
BotUsers == {"u1", "u2"}
guests == {"g"}

\* the updates the commands are given: a win and a loss
StatsUpdates ==
  {[xp |-> 100, wins |-> 1, losses |-> 0], [xp |-> -150, wins |-> 0, losses |-> 1]}

UpdatedPlaylists == {"mlg_4v4", "head_to_head"}

MmrValues == {1600, 10001}

\* the record of a player in the copy of the store on GitHub: two wins and
\* two losses in one playlist, rank 2 reached and lost again
GithubStats ==
  [xp |-> 80, wins |-> 2, losses |-> 2, total_games |-> 4, mmr |-> DefaultMmr,
   playlist_stats |-> [get_default_playlist_stats EXCEPT
                         !["mlg_4v4"] = [xp |-> 80, wins |-> 2, losses |-> 2]],
   highest_rank |-> 2]

PlayerIdLists == {<<"u1">>, <<"u2", "u1">>, <<"g", "u2">>}

BotIdle ==
  /\ bot_rankstats = EmptyDict
  /\ bot_cmds = 0
  /\ rf_pc = "idle"
  /\ rf_kind = "all"
  /\ rf_ids = << >>
  /\ rf_i = 0
  /\ rf_stats = EmptyDict
  /\ rf_updated = FALSE
  /\ rf_before = EmptyDict
  /\ rf_concurrent = EmptyDict

\* a command runs when no refresh call is between two of its awaits
CommandRuns ==
  /\ rf_pc \in {"idle", "await"}
  /\ bot_cmds < MaxCommands
  /\ bot_cmds' = bot_cmds + 1

\* the record a command wrote for u while a refresh call is suspended
Written(u) ==
  /\ rf_concurrent' = IF rf_pc = "await" /\ u \in DOMAIN bot_rankstats'
                      THEN Put(rf_concurrent, u, bot_rankstats'[u])
                      ELSE rf_concurrent
  /\ UNCHANGED <<rf_pc, rf_kind, rf_ids, rf_i, rf_stats, rf_updated, rf_before>>
  /\ UNCHANGED <<filevars, runvars, rankvars, xpvars, seriesvars, outvars, scenvars>>

UpdatePlayerStats ==
  /\ CommandRuns
  /\ \E u \in BotUsers, upd \in StatsUpdates :
       /\ bot_rankstats' = update_player_stats(bot_rankstats, u, upd)
       /\ Written(u)

UpdatePlaylistStats ==
  /\ CommandRuns
  /\ \E u \in BotUsers, pl \in UpdatedPlaylists, upd \in StatsUpdates :
       /\ bot_rankstats' = update_playlist_stats(bot_rankstats, u, pl, upd)
       /\ Written(u)

SetMmr ==
  /\ CommandRuns
  /\ \E u \in BotUsers, value \in MmrValues :
       /\ bot_rankstats' = set_mmr(bot_rankstats, u, value)
       /\ Written(u)

\* verifystats, lines 828-859: the record pulled from GitHub replaces the
\* record of the caller
VerifyStats ==
  /\ CommandRuns
  /\ \E u \in BotUsers :
       /\ bot_rankstats' = Put(bot_rankstats, u, GithubStats)
       /\ Written(u)

\* lines 540-546 and 573-577: the call loads the store once
RefreshStart ==
  /\ rf_pc = "idle"
  /\ bot_cmds < MaxCommands
  /\ bot_cmds' = bot_cmds + 1
  /\ rf_pc' = "loop"
  /\ rf_kind' \in {"all", "playlist"}
  /\ rf_ids' \in PlayerIdLists
  /\ rf_i' = 1
  /\ rf_stats' = bot_rankstats
  /\ rf_updated' = FALSE
  /\ rf_before' = bot_rankstats
  /\ rf_concurrent' = EmptyDict
  /\ UNCHANGED bot_rankstats
  /\ UNCHANGED <<filevars, runvars, rankvars, xpvars, seriesvars, outvars, scenvars>>

\* lines 548-566 and 579-594: one player of the loop, up to the role update
RefreshPlayer ==
  /\ rf_pc = "loop"
  /\ rf_i <= Len(rf_ids)
  /\ LET u == rf_ids[rf_i]
     IN IF (rf_kind = "all" /\ u \in guests) \/ u \notin DOMAIN rf_stats
        THEN /\ rf_i' = rf_i + 1
             /\ UNCHANGED <<rf_pc, rf_stats, rf_updated>>
        ELSE LET highest == calculate_highest_rank(rf_stats[u])
             IN /\ rf_pc' = "await"
                /\ rf_stats' = [rf_stats EXCEPT ![u].highest_rank = highest]
                /\ rf_updated' = (rf_updated \/ rf_stats[u].highest_rank # highest)
                /\ UNCHANGED rf_i
  /\ UNCHANGED <<bot_rankstats, bot_cmds, rf_kind, rf_ids, rf_before, rf_concurrent>>
  /\ UNCHANGED <<filevars, runvars, rankvars, xpvars, seriesvars, outvars, scenvars>>

\* update_player_rank_role returns and the loop goes on
RoleUpdated ==
  /\ rf_pc = "await"
  /\ rf_pc' = "loop"
  /\ rf_i' = rf_i + 1
  /\ UNCHANGED <<bot_rankstats, bot_cmds, rf_kind, rf_ids, rf_stats, rf_updated,
                 rf_before, rf_concurrent>>
  /\ UNCHANGED <<filevars, runvars, rankvars, xpvars, seriesvars, outvars, scenvars>>

\* lines 568-570 and 596-598: the loaded stats are saved if anything changed
RefreshSave ==
  /\ rf_pc = "loop"
  /\ rf_i > Len(rf_ids)
  /\ rf_pc' = "done"
  /\ bot_rankstats' = IF rf_updated THEN rf_stats ELSE bot_rankstats
  /\ UNCHANGED <<bot_cmds, rf_kind, rf_ids, rf_i, rf_stats, rf_updated, rf_before,
                 rf_concurrent>>
  /\ UNCHANGED <<filevars, runvars, rankvars, xpvars, seriesvars, outvars, scenvars>>

\* the call returns to its caller
RefreshReturn ==
  /\ rf_pc = "done"
  /\ rf_pc' = "idle"
  /\ rf_kind' = "all"
  /\ rf_ids' = << >>
  /\ rf_i' = 0
  /\ rf_stats' = EmptyDict
  /\ rf_updated' = FALSE
  /\ rf_before' = EmptyDict
  /\ rf_concurrent' = EmptyDict
  /\ UNCHANGED <<bot_rankstats, bot_cmds>>
  /\ UNCHANGED <<filevars, runvars, rankvars, xpvars, seriesvars, outvars, scenvars>>

(***************************************************************************)
(* Specifications                                                          *)
(***************************************************************************)
FileInit ==
  /\ stats_files = << >>
  /\ manual_playlists = EmptyDict
  /\ active_tag = << >>
  /\ processed_state_file = NoCheckpoint
  /\ ranks_file = EmptyDict
  /\ rankhistory_file = EmptyDict
  /\ edits = 0

Init == FileInit /\ RunInit /\ RankIdle /\ XpIdle /\ SeriesIdle /\ OutIdle /\ ScenIdle /\ BotIdle

Next ==
  \/ AddFile
  \/ SetManual
  \/ ChangeActiveMatch
  \/ LoseCheckpoint
  \/ NothingToProcess
  \/ PlanRun
  \/ ResolvePlayers
  \/ ApplyGame
  \/ Consolidate
  \/ SaveRanks
  \/ SaveRankHistory
  \/ WriteFails
  \/ SaveProcessedState
  \/ Exit

Spec == Init /\ [][Next]_vars

RankInit ==
  /\ FileInit /\ RunInit /\ XpIdle /\ SeriesIdle /\ OutIdle /\ ScenIdle /\ BotIdle
  /\ rk_thresholds \in RankTables
  /\ rk_a \in XpSamples(rk_thresholds)
  /\ rk_b \in XpSamples(rk_thresholds)
  /\ rk_a <= rk_b
  /\ rk_engine = NoRanks /\ rk_bot = NoRanks /\ rk_playlist = NoRanks

RankNext == RankLookup

SpecRank == RankInit /\ [][RankNext]_vars

XpInit ==
  /\ FileInit /\ RunInit /\ RankIdle /\ SeriesIdle /\ OutIdle /\ ScenIdle /\ BotIdle
  /\ fx_game \in OutcomeGames
  /\ fx_name \in {"a", "b", "c"}
  /\ fx_cfg \in XpConfigs
  /\ fx_before \in {EntryWith(xp, fx_cfg.rank_thresholds) : xp \in XpBefore}
  /\ fx_outcome = NoOutcome
  /\ fx_after = fx_before

XpNext == ApplyResult

SpecXp == XpInit /\ [][XpNext]_vars

SeriesInit ==
  /\ FileInit /\ RunInit /\ RankIdle /\ XpIdle /\ OutIdle /\ ScenIdle /\ BotIdle
  /\ sd_games \in SeriesInputs
  /\ sd_series = NoSeries

SeriesNext == DetectSeries

SpecSeries == SeriesInit /\ [][SeriesNext]_vars

ScenInit ==
  /\ FileInit /\ RunInit /\ RankIdle /\ XpIdle /\ SeriesIdle /\ OutIdle
  /\ BotIdle
  /\ sc_pc = "load"
  /\ sc_cfg \in ScenarioConfigs
  /\ sc_games \in ScenarioGames
  /\ sc_trace = << >>

ScenNext ==
  \/ LoadConfig
  \/ PlayMatch

SpecScenario == ScenInit /\ [][ScenNext]_vars

\* a first run of main(): no output file exists, the files and tags are given
ReplayInit ==
  /\ RunInit /\ RankIdle /\ XpIdle /\ SeriesIdle /\ OutIdle /\ ScenIdle /\ BotIdle
  /\ \E n \in 0..MaxReplayFiles :
       /\ stats_files \in [1..n -> ReplayPool]
       /\ active_tag \in [1..n -> ReplayActiveTags]
       /\ manual_playlists \in ManualDicts(n)
  /\ processed_state_file = NoCheckpoint
  /\ ranks_file = EmptyDict
  /\ rankhistory_file = EmptyDict
  /\ edits = 0

ReplayNext ==
  \/ NothingToProcess
  \/ PlanRun
  \/ ResolvePlayers
  \/ ApplyGame
  \/ Consolidate
  \/ SaveRanks
  \/ SaveRankHistory
  \/ WriteFails
  \/ SaveSeries
  \/ SaveStateAfterSeries

SpecReplay == ReplayInit /\ [][ReplayNext]_vars

\* game files of a run that is resumed: all but the last are there for the
\* first run, the last one arrives after the checkpoint was saved
MaxResumeFiles == 3

\* a game of b alone, which no identity but u2 takes part in
SoloGame == [players |-> <<PlayerRow("b", "Red", 1)>>]

LaterPool == {SoloGame, Game("a", "b", 1, 0)}

\* a game file that arrives after a run saved the checkpoint; a manual
\* override tags it MLG 4v4
AddLaterFile ==
  /\ pc = "idle"
  /\ processed_state_file.readable
  /\ Len(stats_files) < MaxResumeFiles
  /\ \E g \in LaterPool :
       /\ stats_files' = Append(stats_files, g)
       /\ active_tag' = Append(active_tag, None)
       /\ manual_playlists' = Put(manual_playlists, Len(stats_files) + 1,
                                  PLAYLIST_MLG_4V4)
  /\ UNCHANGED <<processed_state_file, ranks_file, rankhistory_file, edits>>
  /\ UNCHANGED <<runvars, rankvars, xpvars, seriesvars, outvars, scenvars,
                 botvars>>

\* the files of the first run; a manual override tags some of them MLG 4v4
ResumeInit ==
  /\ RunInit /\ RankIdle /\ XpIdle /\ SeriesIdle /\ OutIdle /\ ScenIdle /\ BotIdle
  /\ \E n \in 1..(MaxResumeFiles - 1) :
       /\ stats_files \in [1..n -> ReplayPool]
       /\ active_tag = [f \in 1..n |-> None]
       /\ manual_playlists \in UNION {[D -> {PLAYLIST_MLG_4V4}] : D \in SUBSET (1..n)}
  /\ processed_state_file = NoCheckpoint
  /\ ranks_file = EmptyDict
  /\ rankhistory_file = EmptyDict
  /\ edits = 0

ResumeNext ==
  \/ AddLaterFile
  \/ NothingToProcess
  \/ PlanRun
  \/ ResolvePlayers
  \/ ApplyGame
  \/ Consolidate
  \/ SaveRanks
  \/ SaveRankHistory
  \/ SaveProcessedState
  \/ Exit

SpecResume == ResumeInit /\ [][ResumeNext]_vars

\* the bot with an empty store
BotInit ==
  /\ FileInit /\ RunInit /\ RankIdle /\ XpIdle /\ SeriesIdle /\ OutIdle /\ ScenIdle
  /\ BotIdle

BotNext ==
  \/ UpdatePlayerStats
  \/ UpdatePlaylistStats
  \/ SetMmr
  \/ VerifyStats
  \/ RefreshStart
  \/ RefreshPlayer
  \/ RoleUpdated
  \/ RefreshSave
  \/ RefreshReturn

SpecBot == BotInit /\ [][BotNext]_vars

(***************************************************************************)
(* Reference: a clean full run over the files and tags as they are now     *)
(***************************************************************************)
CurrentPlaylist(f) == determine_playlist(f, active_tag, manual_playlists)

RECURSIVE ReplayAll(_, _, _, _, _)
ReplayAll(st, games, i, gp, p2i) ==
  IF i > Len(games) THEN st
  ELSE ReplayAll(ApplyGameTo(st, games[i], gp, p2i), games, i + 1, gp, p2i)

FullReplay ==
  LET gp == [f \in FileIds |-> CurrentPlaylist(f)]
      names == UNION {GameNames(f) : f \in FileIds}
      p2i == ResolvedNames(names, EmptyDict)
      led0 == InitLedger(names, EmptyDict, p2i, FALSE, EmptyDict)
      pgs == CountGames(InitGameStats(names, EmptyDict, FALSE, EmptyDict), FALSE, {})
      st == ReplayAll([led |-> led0, hist |-> EmptyDict], RankedGames(gp, 1), 1, gp, p2i)
  IN Consolidated(ZeroRankstats(load_rankstats), names, p2i, pgs, st.led)

ProgressionTable(rs) == [u \in DOMAIN rs |-> rs[u].playlists]

\* a run that went past the plan / past the consolidation
Running ==
  pc \in {"resolve", "xp", "save", "history", "state", "done", "crashed", "io_error"}

AfterStep4 == pc \in {"save", "history", "state", "done", "io_error"}

\* the checkpoint the run loaded records, for each of its matches, the
\* playlist the match has now
CheckpointTagsUnchanged ==
  \A f \in DOMAIN processed_state.games :
    f \in FileIds /\ processed_state.games[f] = CurrentPlaylist(f)

SomeCheckpointTagChanged ==
  \E f \in DOMAIN processed_state.games :
    f \in FileIds /\ processed_state.games[f] # CurrentPlaylist(f)

(***************************************************************************)
(* Claims                                                                  *)
(***************************************************************************)
\* C1: a run resumed from the checkpoint of a prefix whose tags did not
\* change completes and ends with the per-(player, playlist) table of a
\* clean full run over all matches.
C1_IncrementalEqualsFull ==
  (Running /\ incremental_mode /\ CheckpointTagsUnchanged)
    => /\ pc # "crashed"
       /\ AfterStep4 => ProgressionTable(rankstats) = ProgressionTable(FullReplay)

\* C2: with a saved checkpoint, the run is a full rebuild exactly when some
\* match of the checkpoint is recorded with a playlist other than the one it
\* is classified into now, whatever the source of the classification.
C2_DecisionRule ==
  (Running /\ processed_state.games # EmptyDict)
    => (~incremental_mode <=> SomeCheckpointTagChanged)

\* C3: a changed playlist tag of a match of the checkpoint forces a full
\* rebuild whose result is the table of a clean full run over the corrected
\* matches.
C3_RebuildOnChange ==
  (pc # "idle" /\ SomeCheckpointTagChanged)
    => /\ Running /\ ~incremental_mode /\ pc # "crashed"
       /\ AfterStep4 => ProgressionTable(rankstats) = ProgressionTable(FullReplay)

\* the ledger of every name of a saved identity holds the saved playlist state
LedgerIsCheckpointTable ==
  \A n \in DOMAIN player_to_id :
    player_to_id[n] \in DOMAIN saved_player_state =>
      LET saved == saved_player_state[player_to_id[n]].playlists
      IN \A pl \in DOMAIN saved :
              /\ n \in DOMAIN player_playlist.xp
              /\ pl \in DOMAIN player_playlist.xp[n]
              /\ player_playlist.xp[n][pl] = saved[pl].xp
              /\ player_playlist.wins[n][pl] = saved[pl].wins
              /\ player_playlist.losses[n][pl] = saved[pl].losses
              /\ player_playlist.games[n][pl] = saved[pl].games
              /\ player_playlist.rank[n][pl] = saved[pl].rank
              /\ player_playlist.highest_rank[n][pl] = saved[pl].highest_rank

\* C4: when an incremental run starts to replay, the new matches are the
\* ones absent from the checkpoint, the ledger is the saved table, and only
\* new matches are queued for the ledger.
C4_IncrementalPlan ==
  (incremental_mode
     /\ ((pc = "xp" /\ game_num = 1) \/ (pc = "crashed" /\ game_num = 0)))
    => /\ new_files = FileIds \ DOMAIN processed_state.games
       /\ LedgerIsCheckpointTable
       /\ \A i \in DOMAIN games_to_process_for_xp :
            games_to_process_for_xp[i] \in new_files

AllEmpty(d) == \A n \in DOMAIN d : d[n] = EmptyDict

HighestBefore(n, pl) ==
  IF n \in DOMAIN player_playlist.highest_rank
        /\ pl \in DOMAIN player_playlist.highest_rank[n]
  THEN player_playlist.highest_rank[n][pl] ELSE 1

\* C7: every applied match leaves every xp of the ledger >= 0 and no highest
\* rank below its value before the match.
C7_XpAndHighestRank ==
  [][(pc = "xp" /\ pc' = "xp" /\ game_num' = game_num + 1)
       => \A n \in DOMAIN player_playlist'.xp :
            \A pl \in DOMAIN player_playlist'.xp[n] :
              /\ player_playlist'.xp[n][pl] >= 0
              /\ player_playlist'.highest_rank[n][pl] >= HighestBefore(n, pl)]_vars

\* a loss was applied that took the xp to 0 and the rank below the highest
C7_Witness ==
  /\ pc = "xp"
  /\ \E n \in DOMAIN player_playlist.xp :
       \E pl \in DOMAIN player_playlist.xp[n] :
         /\ player_playlist.losses[n][pl] >= 1
         /\ player_playlist.xp[n][pl] = 0
         /\ player_playlist.rank[n][pl] < player_playlist.highest_rank[n][pl]

EntryConsistent(e) ==
  e.rank = calculate_rank(e.xp, rank_thresholds) /\ e.highest_rank >= e.rank

\* C8: every entry of the ledger, and every entry of the table consolidated
\* per identity, has rank = lookup(xp) and highest rank >= rank.
C8_RankConsistent ==
  /\ \A n \in DOMAIN player_playlist.xp :
       \A pl \in DOMAIN player_playlist.xp[n] :
         /\ n \in DOMAIN player_playlist.rank
         /\ pl \in DOMAIN player_playlist.rank[n]
         /\ player_playlist.rank[n][pl] =
              calculate_rank(player_playlist.xp[n][pl], rank_thresholds)
         /\ player_playlist.highest_rank[n][pl] >= player_playlist.rank[n][pl]
  /\ AfterStep4 =>
       \A u \in DOMAIN rankstats :
         \A pl \in DOMAIN rankstats[u].playlists :
           EntryConsistent(rankstats[u].playlists[pl])

\* C9: the engine's lookup is monotonic: a <= b gives lookup(a) <= lookup(b).
C9_LookupMonotonic ==
  (rk_engine # NoRanks /\ rk_a <= rk_b) => rk_engine[1] <= rk_engine[2]

\* the highest level whose lower bound is <= xp, level 1 if there is none
HighestLevelFrom(xp, t) ==
  LET ls == {l \in DOMAIN t : t[l][1] <= xp}
  IN IF ls = {} THEN 1 ELSE CHOOSE l \in ls : \A m \in ls : m <= l

\* C10: the engine's lookup returns the highest level whose lower bound is
\* <= xp, and the lookups of the bot return the same level.
C10_LookupByLowerBound ==
  rk_engine # NoRanks =>
  /\ rk_engine[1] = HighestLevelFrom(rk_a, rk_thresholds)
  /\ rk_engine[2] = HighestLevelFrom(rk_b, rk_thresholds)
  /\ rk_bot = rk_engine
  /\ rk_playlist = rk_engine

\* the integer nearest to amount * pct / 100, a half going to the even one
RoundPct(amount, pct) ==
  LET v == amount * pct
      q == v \div 100
      r == v % 100
  IN IF r < 50 THEN q
     ELSE IF r > 50 THEN q + 1
     ELSE IF q % 2 = 0 THEN q ELSE q + 1

\* C11: on a win the xp grows by round(win amount * win factor of the rank
\* held before the game) and wins grows by 1.
C11_WinDelta ==
  (fx_outcome.done /\ fx_name \in fx_outcome.winners)
    => /\ fx_after.xp = fx_before.xp
            + RoundPct(fx_cfg.game_win,
                       get_win_factor(fx_before.rank, fx_cfg.win_factors))
       /\ fx_after.wins = fx_before.wins + 1

\* C12: on a loss the xp becomes max(0, xp + round(loss amount * loss factor
\* of the rank held before the game)), the amount negative, and losses grows
\* by 1.
C12_LossDelta ==
  (fx_outcome.done /\ fx_name \in fx_outcome.losers /\ fx_cfg.game_loss < 0)
    => LET delta == RoundPct(fx_cfg.game_loss,
                             get_loss_factor(fx_before.rank, fx_cfg.loss_factors))
       IN /\ fx_after.xp = (IF fx_before.xp + delta < 0 THEN 0
                            ELSE fx_before.xp + delta)
          /\ fx_after.losses = fx_before.losses + 1

RedBlueTied(game) ==
  /\ TeamPlayers(game, "Red") # {} /\ TeamPlayers(game, "Blue") # {}
  /\ TeamScore(game, "Red") = TeamScore(game, "Blue")

\* C13: every applied game adds exactly 1 to the games of the player, and a
\* game whose Red and Blue totals are equal leaves xp, wins and losses as
\* they were.
C13_TieAndGamesPlayed ==
  fx_outcome.done
    => /\ fx_after.games = fx_before.games + 1
       /\ RedBlueTied(fx_game)
            => /\ fx_after.xp = fx_before.xp
               /\ fx_after.wins = fx_before.wins
               /\ fx_after.losses = fx_before.losses

\* a game tied at a score above 0, applied to a player of Red who holds xp
C13_Witness ==
  /\ fx_outcome.done
  /\ RedBlueTied(fx_game)
  /\ TeamScore(fx_game, "Red") > 0
  /\ fx_name \in TeamPlayers(fx_game, "Red")
  /\ fx_before.xp > 0
  /\ fx_after.games = 7

\* C14: the win factor and the loss factor of every rank are in (0, 1], and
\* are 1.0 (100 percent) for a rank the configured table has no entry for.
C14_FactorsTotal ==
  fx_outcome.done
    => LET wf == get_win_factor(fx_before.rank, fx_cfg.win_factors)
           lf == get_loss_factor(fx_before.rank, fx_cfg.loss_factors)
       IN /\ wf > 0 /\ wf <= FullFactor
          /\ lf > 0 /\ lf <= FullFactor
          /\ fx_before.rank \notin DOMAIN fx_cfg.win_factors => wf = FullFactor
          /\ fx_before.rank \notin DOMAIN fx_cfg.loss_factors => lf = FullFactor

\* the teams named in the team column of the game
TeamsPresent(game) ==
  {game.players[j].team : j \in DOMAIN game.players} \ {""}

\* C15: the resolver returns the rosters of the winning and the losing team
\* exactly when two teams are present and their totals differ, the winner
\* being the team with the larger total; otherwise it returns two empty
\* rosters.
C15_OutcomeResolver ==
  fx_outcome.done
    => LET teams == TeamsPresent(fx_game)
       IN IF Cardinality(teams) = 2
             /\ \E t, u \in teams : TeamScore(fx_game, t) > TeamScore(fx_game, u)
          THEN \E t, u \in teams :
                 /\ TeamScore(fx_game, t) > TeamScore(fx_game, u)
                 /\ fx_outcome.winners = TeamPlayers(fx_game, t)
                 /\ fx_outcome.losers = TeamPlayers(fx_game, u)
          ELSE fx_outcome.winners = {} /\ fx_outcome.losers = {}

\* the signature as the specification states it: the unordered pair of the
\* two rosters' name sets
UnorderedSignature(game) == {TeamPlayers(game, "Red"), TeamPlayers(game, "Blue")}

\* the source files of the games of the series of a list, in order
RECURSIVE SeriesFiles(_, _)
SeriesFiles(list, k) ==
  IF k > Len(list) THEN << >>
  ELSE [j \in 1..Len(list[k].games) |-> list[k].games[j].source_file]
         \o SeriesFiles(list, k + 1)

\* the game a series entry was made from
GameOfEntry(e) == sd_games[e.source_file]

\* C16: the series are exactly the maximal runs of consecutive games of the
\* sorted list with equal team-composition signature: the series' game
\* lists concatenated give the sorted list, the games of one series have
\* one signature, and two adjacent series never have the same signature.
C16_SeriesAreMaximalRuns ==
  sd_series.done
    => LET list == sd_series.list
           sorted == sorted_games(sd_games)
       IN /\ SeriesFiles(list, 1) = [i \in 1..Len(sorted) |-> sorted[i].source_file]
          /\ \A k \in DOMAIN list : \A i, j \in DOMAIN list[k].games :
               UnorderedSignature(GameOfEntry(list[k].games[i]))
                 = UnorderedSignature(GameOfEntry(list[k].games[j]))
          /\ \A k \in DOMAIN list : k < Len(list) =>
               UnorderedSignature(GameOfEntry(list[k].games[1]))
                 # UnorderedSignature(GameOfEntry(list[k + 1].games[1]))

\* the two games are played by the same two rosters with the sides swapped
SidesSwapped(g, h) ==
  /\ TeamPlayers(g, "Red") = TeamPlayers(h, "Blue")
  /\ TeamPlayers(g, "Blue") = TeamPlayers(h, "Red")
  /\ TeamPlayers(g, "Red") # TeamPlayers(g, "Blue")

\* C17: two consecutive games played by the same two rosters with the Red
\* and Blue sides swapped have the same signature and are in the same series.
C17_SwappedSidesOneSeries ==
  sd_series.done
    => LET sorted == sorted_games(sd_games)
       IN \A i \in DOMAIN sorted :
            (i < Len(sorted) /\ SidesSwapped(sorted[i], sorted[i + 1]))
              => /\ get_team_signature(sorted[i]) = get_team_signature(sorted[i + 1])
                 /\ \E k \in DOMAIN sd_series.list :
                      {sorted[i].source_file, sorted[i + 1].source_file}
                        \subseteq {sd_series.list[k].games[j].source_file :
                                     j \in DOMAIN sd_series.list[k].games}

\* the type and the win threshold the finalization table gives n games
TableType(n) ==
  CASE n <= 3 -> "Bo3" [] n > 3 /\ n <= 5 -> "Bo5"
    [] n > 5 /\ n <= 7 -> "Bo7" [] n > 7 -> "Custom"

TableThreshold(n) ==
  CASE n <= 3 -> 2 [] n > 3 /\ n <= 5 -> 3
    [] n > 5 /\ n <= 7 -> 4 [] n > 7 -> (n \div 2) + 1

\* C18: a finalized series of n games has the type and the win threshold of
\* the table: Bo3 and 2 up to 3 games, Bo5 and 3 up to 5, Bo7 and 4 up to 7,
\* Custom and floor(n/2)+1 above.
C18_SeriesTypeAndThreshold ==
  sd_series.done
    => \A k \in DOMAIN sd_series.list :
         LET n == Len(sd_series.list[k].games)
         IN /\ sd_series.list[k].series_type = TableType(n)
            /\ wins_needed(n) = TableThreshold(n)

\* a series of more than 7 games has been finalized as Custom
C18_Witness ==
  /\ sd_series.done
  /\ \E k \in DOMAIN sd_series.list :
       /\ Len(sd_series.list[k].games) > 7
       /\ sd_series.list[k].series_type = "Custom"

\* the wins of a side among the first j games of a series
RECURSIVE WinsUpTo(_, _, _)
WinsUpTo(series, side, j) ==
  IF j = 0 THEN 0
  ELSE WinsUpTo(series, side, j - 1)
         + (IF series.games[j].winner = side THEN 1 ELSE 0)

\* the side has the threshold after j games and no side had it before
ReachedFirst(series, side, j) ==
  LET needed == TableThreshold(Len(series.games))
  IN /\ WinsUpTo(series, side, j) >= needed
     /\ \A i \in 0..(j - 1) :
          /\ WinsUpTo(series, "Red", i) < needed
          /\ WinsUpTo(series, "Blue", i) < needed

FourGamesAAAB(sorted) ==
  /\ Len(sorted) = 4
  /\ UnorderedSignature(sorted[1]) = UnorderedSignature(sorted[2])
  /\ UnorderedSignature(sorted[2]) = UnorderedSignature(sorted[3])
  /\ UnorderedSignature(sorted[3]) # UnorderedSignature(sorted[4])

\* C19: four games of signatures A, A, A, B make exactly two series, the
\* first of 3 games and type Bo3, the second of 1 game and type Custom with
\* win threshold 1.
C19_ExampleAAAB ==
  (sd_series.done /\ FourGamesAAAB(sorted_games(sd_games)))
    => LET list == sd_series.list
       IN /\ Len(list) = 2
          /\ Len(list[1].games) = 3 /\ list[1].series_type = "Bo3"
          /\ Len(list[2].games) = 1 /\ list[2].series_type = "Custom"
          /\ wins_needed(Len(list[2].games)) = 1

\* the games of a series that the Outcome Resolver gives to the team
GamesWonBy(series, team) ==
  {j \in DOMAIN series.games :
     LET wl == determine_winners_losers(GameOfEntry(series.games[j]))
     IN wl.winners # {} /\ wl.winners = TeamPlayers(GameOfEntry(series.games[j]), team)}

TiedGames(series) ==
  {j \in DOMAIN series.games :
     determine_winners_losers(GameOfEntry(series.games[j])).winners = {}}

\* C21: red_wins and blue_wins of a series are the numbers of its games the
\* Outcome Resolver gives to the Red and to the Blue team; a tie adds to
\* neither, so their sum is at most the number of games, and equal to it
\* exactly when no game is a tie.
C21_WinCounts ==
  sd_series.done
    => \A k \in DOMAIN sd_series.list :
         LET series == sd_series.list[k]
         IN /\ series.red_wins = Cardinality(GamesWonBy(series, "Red"))
            /\ series.blue_wins = Cardinality(GamesWonBy(series, "Blue"))
            /\ series.red_wins + series.blue_wins <= Len(series.games)
            /\ (series.red_wins + series.blue_wins = Len(series.games))
                 <=> (TiedGames(series) = {})

\* a series with a tie after its first game, and games won by either side
C21_Witness ==
  /\ sd_series.done
  /\ \E k \in DOMAIN sd_series.list :
       LET series == sd_series.list[k]
       IN /\ series.red_wins >= 1 /\ series.blue_wins >= 1
          /\ \E j \in TiedGames(series) : j > 1
          /\ series.red_wins + series.blue_wins < Len(series.games)

\* the places (series, game) of the series list that hold the file
PlacesOf(list, f) ==
  {p \in {<<k, j>> : k \in DOMAIN list, j \in 1..MaxReplayFiles} :
     p[2] \in DOMAIN list[p[1]].games /\ list[p[1]].games[p[2]].source_file = f}

RankedFiles == {ranked_games[i] : i \in DOMAIN ranked_games}

\* C22: the detector runs per playlist over that playlist's matches: every
\* series holds only matches tagged with the series' playlist, and every
\* ranked match is in exactly one series of the emitted list.
C22_SeriesPerPlaylist ==
  all_series.done
    => /\ \A k \in DOMAIN all_series.list :
            \A j \in DOMAIN all_series.list[k].games :
              game_playlist[all_series.list[k].games[j].source_file]
                = all_series.list[k].playlist
       /\ \A f \in RankedFiles : Cardinality(PlacesOf(all_series.list, f)) = 1

\* the matches applied to the ledger so far, in the order of application
AppliedGames == SubSeq(games_to_process_for_xp, 1, game_num - 1)

\* C23: matches are applied to the ledger, and their events recorded, in
\* ascending timestamp order over the whole replayed subset: no match is
\* applied after a match with a later timestamp (files are named by time).
C23_AscendingReplay ==
  pc = "xp"
    => /\ \A i, j \in DOMAIN AppliedGames :
            i < j => AppliedGames[i] < AppliedGames[j]
       /\ \A u \in DOMAIN rankhistory :
            \A i, j \in DOMAIN rankhistory[u] :
              i < j => rankhistory[u][i].source_file < rankhistory[u][j].source_file

\* the files with this tag that the name plays in
FilesOf(n, tag) == {f \in FileIds : game_playlist[f] = tag /\ n \in GameNames(f)}

ReplayFinished == pc = "xp" /\ game_num > Len(games_to_process_for_xp)

\* C24: a match is applied to the ledger exactly when its playlist tag is
\* not null: after the replay of a full run every participant's games in a
\* playlist are the matches with that tag, whatever the tag, and the
\* matches without a tag are in no entry.
C24_AppliedIffTagged ==
  (ReplayFinished /\ ~incremental_mode)
    => \A n \in all_player_names :
         /\ None \notin DOMAIN player_playlist.games[n]
         /\ \A f \in FileIds :
              (game_playlist[f] # None /\ n \in GameNames(f))
                => /\ game_playlist[f] \in DOMAIN player_playlist.games[n]
                   /\ player_playlist.games[n][game_playlist[f]]
                        = Cardinality(FilesOf(n, game_playlist[f]))

\* C27: a failed run leaves every output file as it was before the run; in
\* a first run that is: no ranks, no rank history, no series, no checkpoint.
C27_FailureLeavesFiles ==
  pc \in {"crashed", "io_error"}
    => /\ ranks_file = EmptyDict
       /\ rankhistory_file = EmptyDict
       /\ series_file = NoSeriesFile
       /\ processed_state_file = NoCheckpoint

\* the ranked matches in timestamp order, whatever their playlist
RankedByTime(gp) ==
  SelectIds(Len(stats_files),
            [f \in DOMAIN gp |-> \E k \in DOMAIN all_playlists : gp[f] = all_playlists[k]],
            1)

\* the ledger of a full replay in timestamp order, playlists interleaved
InterleavedLedger ==
  ReplayAll([led |-> InitLedger(all_player_names, EmptyDict, player_to_id,
                                FALSE, EmptyDict),
             hist |-> EmptyDict],
            RankedByTime(game_playlist), 1, game_playlist, player_to_id).led

\* the entry (n, pl) exists and is the same before and after the step
EntryKept(n, pl) ==
  /\ n \in DOMAIN player_playlist.xp
  /\ pl \in DOMAIN player_playlist.xp[n]
  /\ EntryOf(player_playlist', n, pl) = EntryOf(player_playlist, n, pl)

\* a step that applies a match of playlist P with participants S changes
\* only the entries (p, P) with p in S
FrameOfApply ==
  (pc = "xp" /\ game_num' = game_num + 1)
    => LET f == games_to_process_for_xp[game_num]
       IN \A n \in DOMAIN player_playlist'.xp :
            \A pl \in DOMAIN player_playlist'.xp[n] :
              (n \notin GameNames(f) \/ pl # game_playlist[f]) => EntryKept(n, pl)

\* the ledger at the end of a full replay is the ledger of the replay of the
\* same matches in timestamp order, playlists interleaved
OrderIndependent ==
  (ReplayFinished /\ ~incremental_mode) => player_playlist = InterleavedLedger

\* C29: applying a match of playlist P with participants S changes only the
\* entries (p, P) with p in S, and the final ledgers do not depend on how
\* the matches of different playlists are interleaved.
C29_LedgerFrame == [][FrameOfApply]_vars /\ []OrderIndependent

\* the replay went playlist by playlist against the timestamps, and a name
\* has entries in two playlists
C29_Witness ==
  /\ ReplayFinished
  /\ \E i, j \in DOMAIN games_to_process_for_xp :
       i < j /\ games_to_process_for_xp[i] > games_to_process_for_xp[j]
  /\ \E n \in DOMAIN player_playlist.xp : Cardinality(DOMAIN player_playlist.xp[n]) = 2

\* C30: no two series of the list a run emits have the same series_id.
C30_SeriesIdsUnique ==
  all_series.done
    => \A k, m \in DOMAIN all_series.list :
         k # m => all_series.list[k].series_id # all_series.list[m].series_id

\* the (xp, rank) of the entries after each game
XpAndRank(trace) == [i \in 1..(Len(trace) - 1) |-> <<trace[i + 1].xp, trace[i + 1].rank>>]

\* C25: with level 1 = [0,88], level 2 = [89,188], 50 per win, -10 per loss
\* and all factors 1.0, a new player who wins, wins, loses, loses has
\* (xp, rank) = (50,1), (100,2), (90,2), (80,1) and highest rank 2 at the end.
C25_Scenario ==
  (sc_cfg = ScenarioConfig
     /\ sc_games = <<WonGame, WonGame, LostGame, LostGame>>
     /\ Len(sc_trace) = 5)
    => /\ XpAndRank(sc_trace) = <<<<50, 1>>, <<100, 2>>, <<90, 2>>, <<80, 1>>>>
       /\ sc_trace[5].highest_rank = 2

\* the four games of the scenario have been applied
C25_Witness ==
  /\ sc_cfg = ScenarioConfig
  /\ sc_games = <<WonGame, WonGame, LostGame, LostGame>>
  /\ Len(sc_trace) = 5
  /\ sc_trace[5].rank < sc_trace[4].rank

\* a table with a gap or an overlap between two levels, or with a level
\* whose bounds do not increase
Malformed(t) ==
  \/ \E l \in 1..(TopLevel - 1) : t[l][2] + 1 # t[l + 1][1]
  \/ \E l \in 1..TopLevel : t[l][1] > t[l][2]

\* C26: a rank table with a gap, an overlap or non-increasing bounds makes
\* the run fail when the table is loaded, before any progression state
\* exists.
C26_TableValidated ==
  Malformed(sc_cfg.rank_thresholds) => (sc_pc \in {"idle", "load"} /\ sc_trace = << >>)

\* the plan the next run computes from the files as they are
NextPlan == check_for_changes(FileIds, manual_playlists, load_processed_state)

NextPlanIncremental ==
  IncrementalMode(NextPlan.needs_full_rebuild, NextPlan.new_files,
                  IF ~NextPlan.needs_full_rebuild /\ NextPlan.new_files # {}
                  THEN load_player_state_from_processed(load_processed_state)
                  ELSE EmptyDict)

\* the next run plans what the interrupted run planned
SamePlan ==
  /\ NextPlan.new_files = new_files
  /\ NextPlan.needs_full_rebuild = needs_full_rebuild
  /\ NextPlanIncremental = incremental_mode

\* C28: after a run that was interrupted before the checkpoint was written,
\* the next run over the same inputs computes the same plan and ends with
\* the progression table of a single uninterrupted run: the interruption is
\* not one that the same plan meets again, and the table the run had
\* computed is the one of a clean run.
C28_ReexecutionSafe ==
  pc \in {"crashed", "io_error"}
    => /\ SamePlan
       /\ pc # "crashed"
       /\ ProgressionTable(rankstats) = ProgressionTable(FullReplay)

\* C31: a game whose Start Time is missing is excluded from series grouping:
\* no series of the detector's result holds an entry made from such a game.
C31_MissingTimeExcluded ==
  sd_series.done
    => \A k \in DOMAIN sd_series.list : \A j \in DOMAIN sd_series.list[k].games :
         GameOfEntry(sd_series.list[k].games[j]).start_time # MissingTime

\* C32: after any sequence of update_playlist_stats (and update_player_stats)
\* calls with positive and negative xp, the xp of every playlist of a player
\* and the player's global xp are >= 0.
C32_BotXpNonNegative ==
  \A u \in DOMAIN bot_rankstats :
    /\ bot_rankstats[u].xp >= 0
    /\ \A p \in DOMAIN bot_rankstats[u].playlist_stats :
         bot_rankstats[u].playlist_stats[p].xp >= 0

\* a win in one playlist, then a loss in another that costs more xp than the
\* player has in that playlist and in total
C32_Witness ==
  \E u \in DOMAIN bot_rankstats :
    /\ bot_rankstats[u].playlist_stats # EmptyDict
    /\ bot_rankstats[u].playlist_stats["mlg_4v4"].xp = 100
    /\ bot_rankstats[u].playlist_stats["head_to_head"].losses = 1
    /\ bot_rankstats[u].playlist_stats["head_to_head"].xp = 0
    /\ bot_rankstats[u].xp = 0

\* C38: a call of refresh_all_ranks or refresh_playlist_ranks that no other
\* command interleaved with leaves every player's stored highest_rank at or
\* above the value stored when the call started.
C38_RefreshKeepsHighest ==
  (rf_pc = "done" /\ rf_concurrent = EmptyDict)
    => \A u \in DOMAIN rf_before :
         /\ u \in DOMAIN bot_rankstats
         /\ bot_rankstats[u].highest_rank >= rf_before[u].highest_rank

\* the record but for its highest_rank
WithoutHighest(rec) == [rec EXCEPT !.highest_rank = NoHighest]

\* C39: what another command wrote to the store while a refresh call was
\* suspended in a role update is in the store after the call's final save.
C39_NoLostUpdate ==
  rf_pc = "done"
    => \A u \in DOMAIN rf_concurrent :
         /\ u \in DOMAIN bot_rankstats
         /\ WithoutHighest(bot_rankstats[u]) = WithoutHighest(rf_concurrent[u])

\* the events of the rank history of an identity in one playlist, in order
EventsOf(u, pl) == SelectSeq(rankhistory[u], LAMBDA e : e.playlist = pl)

\* C33: the events of one (identity, playlist) form a chain: the first has
\* rank_before 1, every later one has the rank_after of the one before as its
\* rank_before, and every xp_total is the xp_total before (0 for the first)
\* plus the event's xp_change, also when the xp was clamped at 0.
C33_EventChain ==
  \A u \in DOMAIN rankhistory : \A k \in DOMAIN all_playlists :
    LET ev == EventsOf(u, all_playlists[k])
    IN \A i \in DOMAIN ev :
         /\ ev[i].rank_before = (IF i = 1 THEN 1 ELSE ev[i - 1].rank_after)
         /\ ev[i].xp_total = (IF i = 1 THEN 0 ELSE ev[i - 1].xp_total) + ev[i].xp_change

\* a name of the checkpoint's name -> identity map plays in some game file
StoredNameAppears ==
  \E n \in DOMAIN processed_state.player_name_to_id :
    \E f \in FileIds : n \in GameNames(f)

\* C34: an incremental run in which a name stored in the checkpoint's name
\* map appears in a match does not raise; once it is past the restore, every
\* name of the games has its ledger structures.
C34_IncrementalCompletes ==
  (Running /\ incremental_mode /\ StoredNameAppears)
    => /\ pc # "crashed"
       /\ pc # "resolve" => \A n \in all_player_names : n \in DOMAIN player_playlist.xp

\* C35: right after a successful run, with the files and the manual overrides
\* of that run, the next run finds no new file and no file with a changed
\* playlist, whatever classified the files, and so returns at lines 1158-1167.
C35_RerunDetectsNothing ==
  pc = "done" => /\ NextPlan.new_files = {}
                 /\ NextPlan.changed_playlists = {}

PlayedUnderAliases(u) ==
  Cardinality({n \in DOMAIN processed_state.player_name_to_id :
                 processed_state.player_name_to_id[n] = u}) > 1

\* no new file of the run has a player of the identity
NoNewMatchOf(u) ==
  \A f \in new_files : \A n \in GameNames(f) : resolve_player_to_discord(n) # u

\* C37: an incremental run with no new match of an identity that played
\* under more than one name completes, and the identity's consolidated xp,
\* wins, losses and games of every playlist are the checkpointed ones.
C37_AliasRestoredOnce ==
  \A u \in DOMAIN saved_player_state :
    (Running /\ incremental_mode /\ PlayedUnderAliases(u) /\ NoNewMatchOf(u))
      => /\ pc # "crashed"
         /\ AfterStep4 =>
              \A pl \in DOMAIN saved_player_state[u].playlists :
                /\ pl \in DOMAIN rankstats[u].playlists
                /\ rankstats[u].playlists[pl].xp = saved_player_state[u].playlists[pl].xp
                /\ rankstats[u].playlists[pl].wins = saved_player_state[u].playlists[pl].wins
                /\ rankstats[u].playlists[pl].losses
                     = saved_player_state[u].playlists[pl].losses
                /\ rankstats[u].playlists[pl].games = saved_player_state[u].playlists[pl].games

=============================================================================
